---- MODULE Spec2Model ----
(***************************************************************************)
(* jsonous: composable JSON decoders.                                      *)
(*                                                                         *)
(* A Decoder wraps one function  any -> Result<string, A>.  The model      *)
(* keeps every `new Decoder(fn)` site of the sources as one kind of        *)
(* decoder term, and the function `fn` of that site as one operator        *)
(* (StringFn, FieldFn, AtFn, AndThenFn, OneOfFn, ...).  Run(d, value) is   *)
(* Decoder.decodeAny: it calls the function the decoder wraps.             *)
(*                                                                         *)
(* JavaScript values are records [t, n, s, kids]; an outcome of a decode   *)
(* is Ok(value), Err(message) or a thrown exception, together with the     *)
(* log of the caller-supplied functions that ran during the decode.        *)
(***************************************************************************)
EXTENDS Integers, Sequences, FiniteSets, TLC

VARIABLES
  pc,       \* "idle", or "done" once a decode has returned
  op,       \* the operation that built the decoder of the decode
  args,     \* the arguments of the operation, where the decoder does not show them
  decoder,  \* the decoder that was run
  input,    \* the value it was run on
  result,   \* what decodeAny returned (or that it threw)
  log,      \* what the decode did besides, in order
  lastIndex,  \* the lastIndex of the RegExp the decoder closes over (0 without one)
  returned    \* the decodes the same decoder made so far: <<value, Result>>, in order

vars == <<pc, op, args, decoder, input, result, log, lastIndex, returned>>

RECURSIVE Run(_, _)
RECURSIVE JsonText(_)
RECURSIVE Fresh(_)
RECURSIVE ReplacerText(_, _)
RECURSIVE ReplacerKids(_, _, _, _)
RECURSIVE Subst(_, _, _)
RECURSIVE ReplacerTextDropsReference(_, _)
RECURSIVE Marked(_)
RECURSIVE HasCycle(_)
RECURSIVE JoinWith(_, _)
RECURSIVE createDecoderFromStructure(_, _)
RECURSIVE AtWalk(_, _, _, _)
RECURSIVE ArrayLoop(_, _, _, _)
RECURSIVE KeyValuePairsReduce(_, _, _, _)
RECURSIVE KeyValuePairsReduceDecodesAll(_, _, _, _)
RECURSIVE ObjectOfLoop(_, _, _, _)
RECURSIVE ConcatAll(_)
RECURSIVE StructureReduce(_, _, _, _)
RECURSIVE StructureReduceReversed(_, _, _, _)
RECURSIVE FailFastRef(_, _, _, _)
RECURSIVE AssignChain(_, _, _)
RECURSIVE ChainLen(_)
RECURSIVE ChainRef(_, _)
RECURSIVE AtRef(_, _, _)
RECURSIVE AtWalkWholePath(_, _, _, _)
RECURSIVE ArrayLoopNoBreak(_, _, _, _)
RECURSIVE ArrayLoopPrepend(_, _, _, _)
RECURSIVE ProblemsFrom(_, _, _)
RECURSIVE StructureRef(_, _, _, _, _)

-----------------------------------------------------------------------------
(* Bounds of the model.                                                    *)

\* discriminatedUnion is given mappings of 0..MaxVariants variants
MaxVariants == 2
\* the arrays handed to array(d) have 0..MaxLen elements
MaxLen == 3
\* numbers drawn as inputs are 1..MaxNum
MaxNum == 2
\* oneOf is given lists of 0..MaxDecoders decoders
MaxDecoders == 3
\* assign chains have 1..MaxSteps steps
MaxSteps == 2
\* `at` paths have 0..MaxPath segments
MaxPath == 2
\* a decoder is run at most MaxDecodes times in a row
MaxDecodes == 3

-----------------------------------------------------------------------------
(* JavaScript values.                                                      *)

Val(t, n, s, kids) == [t |-> t, n |-> n, s |-> s, kids |-> kids]

Undefined == Val("undefined", 0, "", <<>>)
Null == Val("null", 0, "", <<>>)
Num(n) == Val("number", n, "", <<>>)
Str(s) == Val("string", 0, s, <<>>)
Bool(b) == Val("boolean", IF b THEN 1 ELSE 0, "", <<>>)
\* an object: its own enumerable properties, in enumeration order
Obj(pairs) == Val("object", 0, "", pairs)
\* an array: element i (from 0) is kids[i + 1][2]
Arr(vs) == Val("array", 0, "", [i \in 1..Len(vs) |-> <<ToString(i - 1), vs[i]>>])
\* the object with identity id (not 0): the same object wherever it occurs
\* in a value; an object of identity 0 occurs once
Shared(id, pairs) == Val("object", id, "", pairs)
\* the array with identity id
SharedArr(id, vs) == Val("array", id, "", [i \in 1..Len(vs) |-> <<ToString(i - 1), vs[i]>>])
\* the object (or array) of identity id once more, inside itself: the
\* reference that closes a cycle.  A value with a cycle is written as the
\* walk from its root finds it, every object on the cycle with an identity.
Ref(id) == Val("ref", id, "", <<>>)
\* maybeasy's just(value) and nothing()
Just(v) == Val("just", 0, "", <<<<"value", v>>>>)
Nothing == Val("nothing", 0, "", <<>>)
\* what RegExp.prototype.exec returns on a match: the array of the matched
\* text, with the index of the match and the string searched
RegExpExecArray(matched, index, str) == Val("match", index, str, <<<<"0", Str(matched)>>>>)
\* a function value: what a lookup of an inherited method yields
Fn(name) == Val("function", 0, name, <<>>)

Keys(v) == [i \in 1..Len(v.kids) |-> v.kids[i][1]]

HasKey(pairs, key) == \E i \in 1..Len(pairs) : pairs[i][1] = key

Lookup(pairs, key) == pairs[CHOOSE i \in 1..Len(pairs) : pairs[i][1] = key][2]

\* the members every object inherits from Object.prototype
ObjectPrototypeKeys ==
  {"constructor", "toString", "toLocaleString", "valueOf", "hasOwnProperty",
   "isPrototypeOf", "propertyIsEnumerable", "__proto__"}

\* the characters of the strings the model draws (a string is atomic in TLC)
StringChars(s) ==
  CASE s = "" -> <<>>
    [] Len(s) = 1 -> <<s>>
    [] s = "aa" -> <<"a", "a">>
    [] s = "ba" -> <<"b", "a">>
    [] s = "user" -> <<"u", "s", "e", "r">>
    [] s = "admin" -> <<"a", "d", "m", "i", "n">>
    [] s = "guest" -> <<"g", "u", "e", "s", "t">>
    [] s = "toString" -> <<"t", "o", "S", "t", "r", "i", "n", "g">>

\* the own properties of Object(v): what hasOwnProperty sees and spread copies
OwnPairs(v) ==
  CASE v.t \in {"object", "array"} -> v.kids
    [] v.t = "string" ->
         LET cs == StringChars(v.s)
         IN  [i \in 1..Len(cs) |-> <<ToString(i - 1), Str(cs[i])>>]
    [] OTHER -> <<>>

\* Object.prototype.hasOwnProperty on value (not null or undefined) and name
HasOwnProperty(v, name) ==
  \/ HasKey(OwnPairs(v), name)
  \/ v.t \in {"array", "string", "function"} /\ name = "length"
  \/ v.t = "function" /\ name = "name"

\* String(v), the text a template literal `${v}` inserts
Interp(v) ==
  CASE v.t = "undefined" -> "undefined"
    [] v.t = "null" -> "null"
    [] v.t = "number" -> ToString(v.n)
    [] v.t = "string" -> v.s
    [] v.t = "boolean" -> IF v.n = 1 THEN "true" ELSE "false"
    [] v.t = "object" -> "[object Object]"
    [] v.t = "array" ->
         JoinWith([i \in 1..Len(v.kids) |->
                     IF v.kids[i][2].t \in {"undefined", "null"} THEN ""
                     ELSE IF v.kids[i][2].t \in {"array", "object", "function"}
                          THEN "[object]" ELSE ToString(v.kids[i][2].n) \o v.kids[i][2].s],
                  ",")
    [] OTHER -> "function " \o v.s \o "() { [native code] }"

\* v with every reference to the object id replaced by that object, w
Subst(v, id, w) ==
  IF v.t = "ref" /\ v.n = id THEN w
  ELSE [v EXCEPT !.kids = [i \in 1..Len(v.kids) |->
                             <<v.kids[i][1], Subst(v.kids[i][2], id, w)>>]]

\* the value the own property key of v refers to, where c is what the model
\* stores under key.  A property that lies on a cycle through v is the object
\* at the other end, written as the walk from that object finds it:
\* v[key] === v for a reference of v to itself, and else v[key] with v inside
\* it, where v's property key is the reference that closes the cycle.
Deref(v, key, c) ==
  IF v.t \notin {"object", "array"} \/ v.n = 0 THEN c
  ELSE IF c.t = "ref" THEN (IF c.n = v.n THEN v ELSE c)
  ELSE IF c.n = 0 THEN c
  ELSE Subst(c, v.n,
             [v EXCEPT !.kids = [i \in 1..Len(v.kids) |->
                                   IF v.kids[i][1] = key THEN <<key, Ref(c.n)>>
                                   ELSE v.kids[i]]])

\* the own property key of v
OwnProp(v, key) == Deref(v, key, Lookup(OwnPairs(v), key))

\* value[key]: a property read; Undefined when there is none.  The caller
\* handles null and undefined receivers (a TypeError in JavaScript).
GetProp(v, key) ==
  IF HasKey(OwnPairs(v), key) THEN OwnProp(v, key)
  ELSE IF v.t \in {"array", "string"} /\ key = "length" THEN Num(Len(OwnPairs(v)))
  ELSE IF v.t = "function" /\ key = "length" THEN Num(0)
  ELSE IF v.t = "function" /\ key = "name" THEN Str(v.s)
  ELSE IF key \in ObjectPrototypeKeys THEN Fn(key)
  ELSE Undefined

-----------------------------------------------------------------------------
(* JSON.stringify, and safeStringify: JSON.stringify with the replacer     *)
(* that remembers the objects it has seen.                                 *)

JoinWith(strs, sep) ==
  IF Len(strs) = 0 THEN ""
  ELSE IF Len(strs) = 1 THEN strs[1]
  ELSE strs[1] \o sep \o JoinWith(Tail(strs), sep)

\* JSON.stringify leaves out what has no JSON text
NoJson(v) == v.t \in {"undefined", "function"}

\* JSON.stringify(v), v neither undefined nor a function and without a cycle
JsonText(v) ==
  CASE v.t = "null" -> "null"
    [] v.t = "number" -> ToString(v.n)
    [] v.t = "string" -> "\"" \o v.s \o "\""
    [] v.t = "boolean" -> IF v.n = 1 THEN "true" ELSE "false"
    [] v.t = "array" ->
         "[" \o JoinWith([i \in 1..Len(v.kids) |->
                            IF NoJson(v.kids[i][2]) THEN "null"
                            ELSE JsonText(v.kids[i][2])], ",") \o "]"
    [] v.t = "object" ->
         LET kept == SelectSeq(v.kids, LAMBDA p : ~NoJson(p[2]))
         IN  "{" \o JoinWith([i \in 1..Len(kept) |->
                                "\"" \o kept[i][1] \o "\":" \o JsonText(kept[i][2])],
                             ",") \o "}"
    [] OTHER -> "undefined"

\* a replacer that turns an object it was handed before into null
ReplacerTextDropsReference(v, seen) ==
  IF v.t \notin {"object", "array", "ref"} THEN [text |-> JsonText(v), seen |-> seen]
  ELSE IF v.n # 0 /\ v.n \in seen
  THEN [text |-> "null", seen |-> seen]
  ELSE LET inside == ReplacerKids(v, 1, IF v.n # 0 THEN seen \cup {v.n} ELSE seen, <<>>)
       IN  [text |-> IF v.t = "array" THEN "[" \o JoinWith(inside.texts, ",") \o "]"
                     ELSE "{" \o JoinWith(inside.texts, ",") \o "}",
            seen |-> inside.seen]

\* JSON.stringify(v, cyclicalReferenceReplacer()): the replacer is handed
\* every value in the order JSON.stringify walks them, and turns an object
\* (or array) it was handed before into the string '[Cyclical Reference]'
ReplacerText(v, seen) ==
  IF v.t \notin {"object", "array", "ref"} THEN [text |-> JsonText(v), seen |-> seen]
  ELSE IF v.n # 0 /\ v.n \in seen
  THEN [text |-> "\"[Cyclical Reference]\"", seen |-> seen]
  ELSE LET inside == ReplacerKids(v, 1, IF v.n # 0 THEN seen \cup {v.n} ELSE seen, <<>>)
       IN  [text |-> IF v.t = "array" THEN "[" \o JoinWith(inside.texts, ",") \o "]"
                     ELSE "{" \o JoinWith(inside.texts, ",") \o "}",
            seen |-> inside.seen]

\* the properties of v from the i-th on, texts those before them gave
ReplacerKids(v, i, seen, texts) ==
  IF i > Len(v.kids) THEN [texts |-> texts, seen |-> seen]
  ELSE LET kid == v.kids[i][2]
           r == ReplacerText(kid, seen)
       IN  IF NoJson(kid)
           THEN ReplacerKids(v, i + 1, seen,
                             IF v.t = "array" THEN Append(texts, "null") ELSE texts)
           ELSE ReplacerKids(v, i + 1, r.seen,
                             Append(texts, IF v.t = "array" THEN r.text
                                           ELSE "\"" \o v.kids[i][1] \o "\":" \o r.text))

\* JSON.stringify(value, replacer) is the JavaScript undefined, not a string,
\* for undefined and for a function
safeStringify(value) ==
  IF NoJson(value) THEN Undefined ELSE Str(ReplacerText(value, {}).text)

-----------------------------------------------------------------------------
(* Result<string, A> (resulty), an exception, and the log of a decode.     *)

Ok(v) == [st |-> "ok", val |-> v, err |-> "", log |-> <<>>]
Err(e) == [st |-> "err", val |-> Undefined, err |-> e, log |-> <<>>]
\* a JavaScript exception, of message e, leaving the decoder function
Throw(e) == [st |-> "throw", val |-> Undefined, err |-> e, log |-> <<>>]

WithLog(r, l) == [r EXCEPT !.log = l]

\* the Result alone, without the log
Res(r) == [st |-> r.st, val |-> r.val, err |-> r.err]

\* what a decode did besides returning: a decoder function the caller wrote
\* ran ("run", with its input), a callback handed to a combinator was called
\* ("call", with its argument), an assign step built its record ("scope",
\* with the key and the previous scope object as the step left it)
Event(ev, id, arg) == [ev |-> ev, id |-> id, arg |-> arg]

-----------------------------------------------------------------------------
(* Decoder terms: one per `new Decoder(fn)` site.                          *)

string == [k |-> "string"]
number == [k |-> "number"]
boolean == [k |-> "boolean"]
eql(t) == [k |-> "eql", t |-> t]
stringLiteral(t) == eql(Str(t))
succeed(value) == [k |-> "succeed", value |-> value]
fail(message) == [k |-> "fail", message |-> message]
field(name, d) == [k |-> "field", name |-> name, d |-> d]
at(path, d) == [k |-> "at", path |-> path, d |-> d]
array(d) == [k |-> "array", d |-> d]
map(d, f) == [k |-> "map", d |-> d, f |-> f]
andThen(d, f) == [k |-> "andThen", d |-> d, f |-> f]
mapError(d, f) == [k |-> "mapError", d |-> d, f |-> f]
orElse(d, f) == [k |-> "orElse", d |-> d, f |-> f]
oneOf(decoders) == [k |-> "oneOf", decoders |-> decoders]
\* mapping: the object literal's entries <<tag, decoder>>, in the order written
discriminatedUnion(discriminatorField, mapping) ==
  [k |-> "discriminatedUnion", discriminatorField |-> discriminatorField,
   mapping |-> mapping, discriminatorDecoder |-> field(discriminatorField, string)]

\* a decoder the caller wrote, new Decoder(fn), whose fn leaves a trace of
\* being run before it answers as d does
Spy(id, d) == [k |-> "spy", id |-> id, d |-> d]

maybe(d) == [k |-> "maybe", d |-> d]
nullable(d) == [k |-> "nullable", d |-> d]
elseDo(d, f) == [k |-> "elseDo", d |-> d, f |-> f]
keyValuePairs(d) == [k |-> "keyValuePairs", decoder |-> d]
objectOf(valueDecoder) == [k |-> "objectOf", valueDecoder |-> valueDecoder]
\* re: a RegExp, [source, flags]; its lastIndex is the variable lastIndex
regex(re) == [k |-> "regex", regex |-> re]

\* other instanceof Decoder / value instanceof Decoder
isDecoder(x) == "k" \in DOMAIN x

-----------------------------------------------------------------------------
(* Functions handed to the combinators.  A caller's function has an id and *)
(* logs the argument of each call; the lambdas the library itself builds   *)
(* (in assign) log nothing.                                                *)

\* (_) => d
ConstFn(id, d) == [fk |-> "const", id |-> id, d |-> d]
\* (a) => succeed(a)
SucceedArgFn(id) == [fk |-> "succeedArg", id |-> id]
\* (a) => eql(a)
EqlArgFn(id) == [fk |-> "eqlArg", id |-> id]
\* (a) => a
IdentityFn(id) == [fk |-> "identity", id |-> id]
\* (a) => [a]
WrapFn(id) == [fk |-> "wrap", id |-> id]
\* (e) => prefix + e
PrefixFn(id, prefix) == [fk |-> "prefix", id |-> id, prefix |-> prefix]
\* (a) => { console.log(a) }: a function called for what it does, returning
\* nothing
VoidFn(id) == [fk |-> "void", id |-> id]

MergeScopeWins(a, key, b) ==
  LET own == OwnPairs(a)
  IN  [created |-> Obj(IF HasKey(own, key) THEN own ELSE Append(own, <<key, b>>)),
       scope |-> a]

MergeInPlace(a, key, b) ==
  LET own == OwnPairs(a)
      merged == Obj(IF HasKey(own, key)
                    THEN [i \in 1..Len(own) |->
                            IF own[i][1] = key THEN <<key, b>> ELSE own[i]]
                    ELSE Append(own, <<key, b>>))
  IN  [created |-> merged, scope |-> merged]

\* { ...Object(a), [k.toString()]: b }: the object the expression creates, and
\* the scope object a as the expression leaves it
Merge(a, key, b) ==
  LET own == OwnPairs(a)
  IN  [created |->
         Obj(IF HasKey(own, key)
             THEN [i \in 1..Len(own) |-> IF own[i][1] = key THEN <<key, b>> ELSE own[i]]
             ELSE Append(own, <<key, b>>)),
       scope |-> a]

\* the function assign hands to andThen
AssignFn(key, other) == [fk |-> "assign", key |-> key, other |-> other]
\* the function assign hands to map
MergeFn(a, key) == [fk |-> "merge", a |-> a, key |-> key]
\* the function do hands to map
DoFn(fn) == [fk |-> "do", fn |-> fn]

\* f(a) for a caller's function that returns a decoder: the decoder and what
\* was logged
CallUserFn(f, a) ==
  CASE f.fk = "const" -> [d |-> f.d, log |-> <<Event("call", f.id, a)>>]
    [] f.fk = "succeedArg" -> [d |-> succeed(a), log |-> <<Event("call", f.id, a)>>]
    [] f.fk = "eqlArg" -> [d |-> eql(a), log |-> <<Event("call", f.id, a)>>]

\* the function assign hands to andThen:
\*   (a) => (other instanceof Decoder ? other : other(a)).map((b) => ({...}))
AssignStep(f, a) ==
  LET chosen == IF isDecoder(f.other)
                THEN [d |-> f.other, log |-> <<>>]
                ELSE CallUserFn(f.other, a)
  IN  [d |-> map(chosen.d, MergeFn(a, f.key)), log |-> chosen.log]

\* f(a) for a function that returns a decoder
CallDecoderFn(f, a) == IF f.fk = "assign" THEN AssignStep(f, a) ELSE CallUserFn(f, a)

\* fn(a) for a caller's function called for what it does: what it returns
\* (undefined) and what was logged
CallVoidFn(fn, a) == [val |-> Undefined, log |-> <<Event("call", fn.id, a)>>]

\* do mapping fn itself over the decoder: the decoded value becomes what fn
\* returns
DoStepMapsCallback(f, v) == CallVoidFn(f.fn, v)

\* the function do hands to map: (v) => { fn(v); return v; }
DoStep(f, v) == [val |-> v, log |-> CallVoidFn(f.fn, v).log]

\* f(a) for a function that returns a value
CallValueFn(f, a) ==
  CASE f.fk = "identity" -> [val |-> a, log |-> <<Event("call", f.id, a)>>]
    [] f.fk = "wrap" -> [val |-> Arr(<<a>>), log |-> <<Event("call", f.id, a)>>]
    [] f.fk = "merge" ->
         LET m == Merge(f.a, f.key, a)
         IN  [val |-> m.created, log |-> <<Event("scope", f.key, m.scope)>>]
    [] f.fk = "do" -> DoStep(f, a)

\* f(e) for a function on error messages
CallErrorFn(f, e) ==
  CASE f.fk = "identity" -> [msg |-> e, log |-> <<Event("call", f.id, Str(e))>>]
    [] f.fk = "prefix" -> [msg |-> f.prefix \o e, log |-> <<Event("call", f.id, Str(e))>>]

\* Decoder.assign
assign(d, key, other) == andThen(d, AssignFn(key, other))

\* Decoder.do
do(d, fn) == map(d, DoFn(fn))

-----------------------------------------------------------------------------
(* The decoder functions.                                                  *)

StringFn(value) ==
  IF value.t # "string"
  THEN Err("I expected to find a string but instead I found " \o Interp(safeStringify(value)))
  ELSE Ok(value)

NumberFn(value) ==
  IF value.t # "number"
  THEN Err("I expected to find a number but instead I found " \o Interp(safeStringify(value)))
  ELSE Ok(value)

BooleanFn(value) ==
  IF value.t # "boolean"
  THEN Err("I expected to find a boolean but instead found " \o Interp(safeStringify(value)))
  ELSE Ok(value)

\* t === v: by value for primitives, by identity for objects (the decoder's
\* constant is never the input object itself)
StrictEquals(t, v) == t.t \in {"undefined", "null", "number", "string", "boolean"} /\ t = v

EqlFn(self, v) ==
  IF StrictEquals(self.t, v) THEN Ok(v)
  ELSE Err("Expected " \o Interp(self.t) \o " but got " \o Interp(safeStringify(v)))

SucceedFn(self, value) == Ok(self.value)

FailFn(self, value) == Err(self.message)

SpyFn(self, value) ==
  LET r == Run(self.d, value)
  IN  WithLog(r, <<Event("run", self.id, value)>> \o r.log)

\* Decoder.map: this.fn(value).map(f)
\* map that hands f the failure as well
MapFnBothChannels(self, value) ==
  LET r == Run(self.d, value)
      c == CallValueFn(self.f, r.val)
  IN  IF r.st = "throw" THEN r
      ELSE IF r.st = "err" THEN WithLog(r, r.log \o c.log)
      ELSE WithLog(Ok(c.val), r.log \o c.log)

MapFn(self, value) ==
  LET r == Run(self.d, value)
  IN  IF r.st # "ok" THEN r
      ELSE LET c == CallValueFn(self.f, r.val)
           IN  WithLog(Ok(c.val), r.log \o c.log)

AndThenFnOnDecoded(self, value) ==
  LET r == Run(self.d, value)
  IN  IF r.st # "ok" THEN r
      ELSE LET c == CallDecoderFn(self.f, r.val)
               r2 == Run(c.d, r.val)
           IN  WithLog(r2, r.log \o c.log \o r2.log)

AndThenFnEager(self, value) ==
  LET r == Run(self.d, value)
      c == CallDecoderFn(self.f, r.val)
      r2 == Run(c.d, value)
  IN  IF r.st = "throw" THEN r
      ELSE IF r.st = "err" THEN WithLog(r, r.log \o c.log \o r2.log)
      ELSE WithLog(r2, r.log \o c.log \o r2.log)

\* Decoder.andThen: this.fn(value).andThen((v) => f(v).decodeAny(value))
AndThenFn(self, value) ==
  LET r == Run(self.d, value)
  IN  IF r.st # "ok" THEN r
      ELSE LET c == CallDecoderFn(self.f, r.val)
               r2 == Run(c.d, value)
           IN  WithLog(r2, r.log \o c.log \o r2.log)

\* Decoder.mapError: this.fn(value).mapError(f)
MapErrorFn(self, value) ==
  LET r == Run(self.d, value)
  IN  IF r.st # "err" THEN r
      ELSE LET c == CallErrorFn(self.f, r.err)
           IN  WithLog(Err(c.msg), r.log \o c.log)

\* Decoder.elseDo: this.fn(value).elseDo(f); resulty's elseDo calls f with the
\* error of an Err and returns the Result it was called on
ElseDoFn(self, value) ==
  LET r == Run(self.d, value)
  IN  IF r.st # "err" THEN r
      ELSE WithLog(r, r.log \o CallVoidFn(self.f, Str(r.err)).log)

\* orElse running the fallback decoder on the error message it was made from
OrElseFnOnMessage(self, value) ==
  LET r == Run(self.d, value)
  IN  IF r.st # "err" THEN r
      ELSE LET c == CallDecoderFn(self.f, Str(r.err))
               r2 == Run(c.d, Str(r.err))
           IN  WithLog(r2, r.log \o c.log \o r2.log)

\* Decoder.orElse: this.fn(value).orElse((e) => f(e).decodeAny(value))
OrElseFn(self, value) ==
  LET r == Run(self.d, value)
  IN  IF r.st # "err" THEN r
      ELSE LET c == CallDecoderFn(self.f, Str(r.err))
               r2 == Run(c.d, value)
           IN  WithLog(r2, r.log \o c.log \o r2.log)

\* result.mapError((e) => e + suffix) of the library's own
AddSuffix(r, suffix) == IF r.st = "err" THEN [r EXCEPT !.err = r.err \o suffix] ELSE r

FieldFn(self, value) ==
  LET errorMsg ==
        Err("I expected to find an object with key '" \o self.name
            \o "' but instead I found " \o Interp(safeStringify(value)))
  IN  IF value.t \in {"undefined", "null"} THEN errorMsg
      ELSE IF GetProp(value, "hasOwnProperty").t # "function"
      THEN \* value.hasOwnProperty finds an own property that cannot be called
           Throw("value.hasOwnProperty is not a function")
      ELSE IF ~HasOwnProperty(value, self.name) THEN errorMsg
      ELSE AddSuffix(Run(self.d, GetProp(value, self.name)),
                     ":\noccurred in a field named '" \o self.name \o "'")

\* the walk naming the whole path, not the part of it walked, in its error
AtWalkWholePath(self, value, idx, val) ==
  IF idx >= Len(self.path) THEN Run(self.d, val)
  ELSE IF val.t \in {"undefined", "null"}
       THEN Throw("Cannot read properties of " \o val.t)
       ELSE LET next == GetProp(val, Interp(self.path[idx + 1]))
            IN  IF next.t = "undefined"
                THEN Err("I found an error in the 'at' path. I could not find path '"
                         \o Interp(safeStringify(Arr(self.path)))
                         \o "' in " \o Interp(safeStringify(value)))
                ELSE AtWalkWholePath(self, value, idx + 1, next)

\* the while loop of `at`, entered with idx segments consumed and val reached
AtWalk(self, value, idx, val) ==
  IF idx >= Len(self.path) THEN Run(self.d, val)
  ELSE IF val.t \in {"undefined", "null"}
       THEN Throw("Cannot read properties of " \o val.t)
       ELSE LET next == GetProp(val, Interp(self.path[idx + 1]))
            IN  IF next.t = "undefined"
                THEN Err("I found an error in the 'at' path. I could not find path '"
                         \o Interp(safeStringify(Arr(SubSeq(self.path, 1, idx + 1))))
                         \o "' in " \o Interp(safeStringify(value)))
                ELSE AtWalk(self, value, idx + 1, next)

AtFn(self, value) ==
  IF value.t \in {"undefined", "null"}
  THEN Err("I found an error. Could not apply 'at' path to an undefined or null value.")
  ELSE AtWalk(self, value, 0, value)

\* the loop without its break: the elements after a failing one are decoded too
ArrayLoopNoBreak(self, value, idx, acc) ==
  IF idx >= Len(value.kids) THEN acc
  ELSE LET r == Run(self.d, GetProp(value, ToString(idx)))
           l == acc.log \o r.log
       IN  IF acc.st = "err" THEN ArrayLoopNoBreak(self, value, idx + 1, WithLog(acc, l))
           ELSE IF r.st # "ok"
                THEN ArrayLoopNoBreak(self, value, idx + 1,
                       WithLog(Err(r.err \o ":\nerror found in an array at ["
                                   \o ToString(idx) \o "]"), l))
                ELSE ArrayLoopNoBreak(self, value, idx + 1,
                       WithLog(Ok(Arr([i \in 1..(idx + 1) |->
                                         IF i <= idx THEN acc.val.kids[i][2]
                                         ELSE r.val])), l))

\* the loop putting each decoded element in front of those before it
ArrayLoopPrepend(self, value, idx, acc) ==
  IF idx >= Len(value.kids) THEN acc
  ELSE LET r == Run(self.d, GetProp(value, ToString(idx)))
           l == acc.log \o r.log
       IN  IF r.st # "ok"
           THEN WithLog(Err(r.err \o ":\nerror found in an array at ["
                            \o ToString(idx) \o "]"), l)
           ELSE ArrayLoopPrepend(self, value, idx + 1,
                  WithLog(Ok(Arr([i \in 1..(idx + 1) |->
                                    IF i = 1 THEN r.val
                                    ELSE acc.val.kids[i - 1][2]])), l))

\* the for loop of `array`, entered at idx with the elements decoded so far
ArrayLoop(self, value, idx, acc) ==
  IF idx >= Len(value.kids) THEN acc
  ELSE LET r == Run(self.d, GetProp(value, ToString(idx)))
           l == acc.log \o r.log
       IN  IF r.st = "throw" THEN WithLog(r, l)
           ELSE IF r.st = "err"
                THEN WithLog(Err(r.err \o ":\nerror found in an array at ["
                                 \o ToString(idx) \o "]"), l)
                ELSE ArrayLoop(self, value, idx + 1,
                               WithLog(Ok(Arr([i \in 1..(idx + 1) |->
                                                 IF i <= idx THEN acc.val.kids[i][2]
                                                 ELSE r.val])), l))

ArrayFn(self, value) ==
  IF value.t # "array"
  THEN Err("I expected an array but instead I found " \o Interp(safeStringify(value)))
  ELSE ArrayLoop(self, value, 0, Ok(Arr(<<>>)))

\* the reduce decoding the values of the keys after a failing one as well
KeyValuePairsReduceDecodesAll(self, value, i, memo) ==
  IF i > Len(value.kids) THEN memo
  ELSE LET key == Keys(value)[i]
           r == Run(self.decoder, GetProp(value, key))
           l == memo.log \o r.log
       IN  IF memo.st # "ok"
           THEN KeyValuePairsReduceDecodesAll(self, value, i + 1, WithLog(memo, l))
           ELSE IF r.st # "ok"
           THEN KeyValuePairsReduceDecodesAll(self, value, i + 1,
                  WithLog(Err("Key '" \o key \o "' failed to decode: " \o r.err), l))
           ELSE KeyValuePairsReduceDecodesAll(self, value, i + 1,
                  WithLog(Ok(Arr([j \in 1..i |->
                                    IF j < i THEN memo.val.kids[j][2]
                                    ELSE Arr(<<Str(key), r.val>>)])), l))

\* Object.keys(value).reduce((memo, key) => memo.andThen(...), ok([])) from
\* the i-th key on: once memo is an Err, andThen calls its function no more
KeyValuePairsReduce(self, value, i, memo) ==
  IF i > Len(value.kids) THEN memo
  ELSE IF memo.st # "ok" THEN KeyValuePairsReduce(self, value, i + 1, memo)
  ELSE LET key == Keys(value)[i]
           r == Run(self.decoder, GetProp(value, key))
           l == memo.log \o r.log
       IN  IF r.st = "throw" THEN WithLog(r, l)
           ELSE IF r.st = "err"
           THEN KeyValuePairsReduce(self, value, i + 1,
                  WithLog(Err("Key '" \o key \o "' failed to decode: " \o r.err), l))
           ELSE KeyValuePairsReduce(self, value, i + 1,
                  WithLog(Ok(Arr([j \in 1..i |->
                                    IF j < i THEN memo.val.kids[j][2]
                                    ELSE Arr(<<Str(key), r.val>>)])), l))

KeyValuePairsFn(self, value) ==
  IF value.t # "object"
  THEN Err("Expected to find an object and instead found '"
           \o Interp(safeStringify(value)) \o "'")
  ELSE KeyValuePairsReduce(self, value, 1, Ok(Arr(<<>>)))

\* result[key] = v on a plain object: an own property, but for the key
\* __proto__, which goes to the setter every object inherits and makes no own
\* property (the setter changes the prototype when v is an object or null,
\* which the values here do not carry)
SetProp(obj, key, v) ==
  IF key = "__proto__" THEN obj
  ELSE Obj(IF HasKey(obj.kids, key)
           THEN [i \in 1..Len(obj.kids) |->
                   IF obj.kids[i][1] = key THEN <<key, v>> ELSE obj.kids[i]]
           ELSE Append(obj.kids, <<key, v>>))

\* the for...of loop of objectOf from the i-th key on, built built so far
ObjectOfLoop(self, value, i, built) ==
  IF i > Len(value.kids) THEN built
  ELSE LET key == Keys(value)[i]
           decodedValue == Run(self.valueDecoder, GetProp(value, key))
           l == built.log \o decodedValue.log
       IN  IF decodedValue.st = "throw" THEN WithLog(decodedValue, l)
           ELSE IF decodedValue.st = "err"
           THEN WithLog(Err("I expected the value for key \"" \o key
                            \o "\" to be a valid value, but found: "
                            \o Interp(safeStringify(GetProp(value, key)))), l)
           ELSE ObjectOfLoop(self, value, i + 1,
                             WithLog(Ok(SetProp(built.val, key, decodedValue.val)), l))

ObjectOfFn(self, value) ==
  IF value.t # "object"
  THEN Err("I expected to find an object but instead found '"
           \o Interp(safeStringify(value)) \o "'")
  ELSE ObjectOfLoop(self, value, 1, Ok(Obj(<<>>)))

ConcatAll(seqs) == IF Len(seqs) = 0 THEN <<>> ELSE Head(seqs) \o ConcatAll(Tail(seqs))

\* oneOf as a chain of orElse would do it: the decoders after the first
\* success are not run
OneOfFnShortCircuit(self, value) ==
  IF Len(self.decoders) = 0 THEN Err("No decoders specified.")
  ELSE
    LET n == Len(self.decoders)
        results == [i \in 1..n |-> Run(self.decoders[i], value)]
        logs(m) == ConcatAll([i \in 1..m |-> results[i].log])
    IN  IF \E i \in 1..n : results[i].st = "ok"
        THEN LET first == CHOOSE i \in 1..n :
                            /\ results[i].st = "ok"
                            /\ \A j \in 1..(i - 1) : results[j].st # "ok"
             IN  WithLog(results[first], logs(first))
        ELSE WithLog(Err("I found the following problems:\n"
                         \o JoinWith([i \in 1..n |-> results[i].err], "\n")),
                     logs(n))

\* oneOf reporting the last decoder's problem alone
OneOfFnLastError(self, value) ==
  IF Len(self.decoders) = 0 THEN Err("No decoders specified.")
  ELSE
    LET n == Len(self.decoders)
        results == [i \in 1..n |-> Run(self.decoders[i], value)]
        logs(m) == ConcatAll([i \in 1..m |-> results[i].log])
    IN  IF \E i \in 1..n : results[i].st = "ok"
        THEN LET first == CHOOSE i \in 1..n :
                            /\ results[i].st = "ok"
                            /\ \A j \in 1..(i - 1) : results[j].st # "ok"
             IN  WithLog(results[first], logs(n))
        ELSE WithLog(Err("I found the following problems:\n" \o results[n].err),
                     logs(n))

OneOfFn(self, value) ==
  IF Len(self.decoders) = 0 THEN Err("No decoders specified.")
  ELSE
    LET n == Len(self.decoders)
        results == [i \in 1..n |-> Run(self.decoders[i], value)]
        logs(m) == ConcatAll([i \in 1..m |-> results[i].log])
        errors == SelectSeq(results, LAMBDA r : r.st = "err")
    IN  IF \E i \in 1..n : results[i].st = "throw"
        THEN \* decoders.map stops at the decoder that throws
             LET t == CHOOSE i \in 1..n :
                        /\ results[i].st = "throw"
                        /\ \A j \in 1..(i - 1) : results[j].st # "throw"
             IN  WithLog(results[t], logs(t))
        ELSE IF \E i \in 1..n : results[i].st = "ok"
        THEN LET first == CHOOSE i \in 1..n :
                            /\ results[i].st = "ok"
                            /\ \A j \in 1..(i - 1) : results[j].st # "ok"
             IN  WithLog(results[first], logs(n))
        ELSE WithLog(Err("I found the following problems:\n"
                         \o JoinWith([i \in 1..Len(errors) |-> errors[i].err], "\n")),
                     logs(n))

\* mapping[discriminatorValue] on an object literal: an own entry, or a member
\* inherited from Object.prototype, or undefined
MappingLookup(mapping, tag) ==
  IF HasKey(mapping, tag) THEN [found |-> "own", d |-> Lookup(mapping, tag)]
  ELSE IF tag \in ObjectPrototypeKeys THEN [found |-> "inherited", d |-> fail("")]
  ELSE [found |-> "none", d |-> fail("")]

\* discriminatedUnion trying the variants one after the other, as oneOf does
DiscriminatedUnionFnTryAll(self, value) ==
  LET discriminatorResult == Run(self.discriminatorDecoder, value)
      r == Run(oneOf([i \in 1..Len(self.mapping) |-> self.mapping[i][2]]), value)
  IN  IF discriminatorResult.st = "err"
      THEN Err("Missing or invalid discriminator field '" \o self.discriminatorField
               \o "' in " \o Interp(safeStringify(value)))
      ELSE IF r.st = "err"
      THEN WithLog(Err("Error decoding variant with " \o self.discriminatorField
                       \o "='" \o Interp(discriminatorResult.val) \o "': " \o r.err), r.log)
      ELSE r

\* discriminatedUnion running the first variant of the mapping whatever the
\* tag of the input is
DiscriminatedUnionFnFirstVariant(self, value) ==
  LET discriminatorResult == Run(self.discriminatorDecoder, value)
      discriminatorValue == Interp(discriminatorResult.val)
  IN  IF discriminatorResult.st = "throw" THEN discriminatorResult
      ELSE IF discriminatorResult.st = "err" \/ Len(self.mapping) = 0
      THEN Err("Missing or invalid discriminator field '" \o self.discriminatorField
               \o "' in " \o Interp(safeStringify(value)))
      ELSE LET r == Run(self.mapping[1][2], value)
           IN  IF r.st = "err"
               THEN WithLog(Err("Error decoding variant with " \o self.discriminatorField
                                \o "='" \o discriminatorValue \o "': " \o r.err), r.log)
               ELSE r

DiscriminatedUnionFn(self, value) ==
  LET discriminatorResult == Run(self.discriminatorDecoder, value)
      discriminatorValue == Interp(discriminatorResult.val)
      selected == MappingLookup(self.mapping, discriminatorValue)
      knownTypes == JoinWith([i \in 1..Len(self.mapping) |-> self.mapping[i][1]], ", ")
  IN  IF discriminatorResult.st = "throw" THEN discriminatorResult
      ELSE IF discriminatorResult.st = "err"
      THEN Err("Missing or invalid discriminator field '" \o self.discriminatorField
               \o "' in " \o Interp(safeStringify(value)))
      ELSE IF selected.found = "none"
      THEN Err("Unexpected discriminator value '" \o discriminatorValue
               \o "' for field '" \o self.discriminatorField
               \o "'. Expected one of: " \o knownTypes
               \o ". Found in: " \o Interp(safeStringify(value)))
      ELSE IF selected.found = "inherited"
      THEN \* a truthy member that is no Decoder: it has no decodeAny to call
           Throw("selectedDecoder.decodeAny is not a function")
      ELSE LET r == Run(selected.d, value)
           IN  IF r.st = "err"
               THEN WithLog(Err("Error decoding variant with " \o self.discriminatorField
                                \o "='" \o discriminatorValue \o "': " \o r.err), r.log)
               ELSE r

\* utils.snakeCase on the keys the model draws: each capital becomes _lower
snakeCase(str) ==
  CASE str = "firstName" -> "first_name"
    [] str = "userInfo" -> "user_info"
    [] OTHER -> str

\* keyToLookup(key), keyToLookup one of utils.identity / utils.snakeCase
ApplyKeyFn(keyToLookup, key) ==
  IF keyToLookup = "snakeCase" THEN snakeCase(key) ELSE key

\* the reduce taking the entries from the last to the first
StructureReduceReversed(entries, keyToLookup, i, acc) ==
  IF i > Len(entries) THEN acc
  ELSE LET key == entries[Len(entries) + 1 - i][1]
           decoderOrStructure == entries[Len(entries) + 1 - i][2]
           d == IF isDecoder(decoderOrStructure)
                THEN field(ApplyKeyFn(keyToLookup, key), decoderOrStructure)
                ELSE field(ApplyKeyFn(keyToLookup, key),
                           createDecoderFromStructure(decoderOrStructure, "identity"))
       IN  StructureReduceReversed(entries, keyToLookup, i + 1, assign(acc, key, d))

\* Object.entries(structure).reduce(..., acc) from entry i on
StructureReduce(entries, keyToLookup, i, acc) ==
  IF i > Len(entries) THEN acc
  ELSE LET key == entries[i][1]
           decoderOrStructure == entries[i][2]
           d == IF isDecoder(decoderOrStructure)
                THEN field(ApplyKeyFn(keyToLookup, key), decoderOrStructure)
                ELSE field(ApplyKeyFn(keyToLookup, key),
                           createDecoderFromStructure(decoderOrStructure, "identity"))
       IN  StructureReduce(entries, keyToLookup, i + 1, assign(acc, key, d))

\* a structure is [struct |-> <<key, decoder or structure>> entries]
createDecoderFromStructure(structure, keyToLookup) ==
  StructureReduce(structure.struct, keyToLookup, 1, succeed(Obj(<<>>)))

\* maybe that lets an error of the decoder through, as nullable does
MaybeFnKeepsError(self, value) ==
  LET r == Run(self.d, value)
  IN  IF value.t \in {"undefined", "null"} THEN WithLog(Ok(Nothing), r.log)
      ELSE IF r.st = "ok" THEN WithLog(Ok(Just(r.val)), r.log)
      ELSE r

\* maybe that makes a nothing of null and undefined before the decoder sees
\* them, as nullable does
MaybeFnNullFirst(self, value) ==
  LET r == Run(self.d, value)
  IN  IF value.t \in {"undefined", "null"} THEN Ok(Nothing)
      ELSE CASE r.st = "err" -> WithLog(Ok(Nothing), r.log)
             [] r.st = "ok" -> WithLog(Ok(Just(r.val)), r.log)
             [] OTHER -> r

MaybeFn(self, value) ==
  LET r == Run(self.d, value)
  IN  CASE r.st = "err" -> WithLog(Ok(Nothing), r.log)
        [] r.st = "ok" -> WithLog(Ok(Just(r.val)), r.log)
        [] OTHER -> r

\* nullable that makes a nothing of an error of the decoder, as maybe does
NullableFnMasksError(self, value) ==
  LET r == Run(self.d, value)
  IN  IF value.t \in {"undefined", "null"} THEN Ok(Nothing)
      ELSE IF r.st = "ok" THEN WithLog(Ok(Just(r.val)), r.log)
      ELSE IF r.st = "err" THEN WithLog(Ok(Nothing), r.log)
      ELSE r

NullableFn(self, value) ==
  IF value.t \in {"undefined", "null"} THEN Ok(Nothing)
  ELSE LET r == Run(self.d, value)
       IN  IF r.st = "ok" THEN WithLog(Ok(Just(r.val)), r.log) ELSE r

\* a RegExp of a literal text: /source/flags, flags a sequence of letters
RegExp(source, flags) == [source |-> source, flags |-> flags]

HasFlag(re, flag) == \E i \in 1..Len(re.flags) : re.flags[i] = flag

\* regex.toString()
RegExpText(re) == "/" \o re.source \o "/" \o JoinWith(re.flags, "")

\* the letter a character is compared as under the flag i
Folded(re, c) == IF HasFlag(re, "i") /\ c = "A" THEN "a" ELSE c

\* regex.exec(str) with the RegExp's lastIndex at last: the match, or null, and
\* the lastIndex exec leaves.  With the flag g or y the search starts at
\* lastIndex (y: matches there only), a match moves lastIndex behind it and a
\* failure sets it to 0; without them lastIndex is neither read nor written.
RegExpExec(re, str, last) ==
  LET chars == StringChars(str)
      pat == StringChars(re.source)
      moving == HasFlag(re, "g") \/ HasFlag(re, "y")
      start == IF moving THEN last ELSE 0
      MatchesAt(i) ==
        /\ i + Len(pat) <= Len(chars)
        /\ \A j \in 1..Len(pat) : Folded(re, chars[i + j]) = Folded(re, pat[j])
      found == {i \in start..Len(chars) :
                  MatchesAt(i) /\ (HasFlag(re, "y") => i = start)}
  IN  IF found = {}
      THEN [match |-> Null, lastIndex |-> IF moving THEN 0 ELSE last]
      ELSE LET index == CHOOSE i \in found : \A j \in found : i <= j
           IN  [match |-> RegExpExecArray(re.source, index, str),
                lastIndex |-> IF moving THEN index + Len(pat) ELSE last]

\* the decoder function of regex(re), run with the RegExp's lastIndex at
\* last: the Result and the lastIndex the call leaves
RegexFn(self, value, last) ==
  IF value.t # "string"
  THEN [r |-> Err("Expected a string, but received: " \o Interp(safeStringify(value))),
        lastIndex |-> last]
  ELSE LET exec == RegExpExec(self.regex, value.s, last)
       IN  [r |-> IF exec.match # Null THEN Ok(exec.match)
                  ELSE Err("The string \"" \o value.s
                           \o "\" does not match the regular expression: "
                           \o RegExpText(self.regex)),
            lastIndex |-> exec.lastIndex]

\* Decoder.decodeAny: this.fn(value)
Run(d, value) ==
  CASE d.k = "string" -> StringFn(value)
    [] d.k = "number" -> NumberFn(value)
    [] d.k = "boolean" -> BooleanFn(value)
    [] d.k = "eql" -> EqlFn(d, value)
    [] d.k = "succeed" -> SucceedFn(d, value)
    [] d.k = "fail" -> FailFn(d, value)
    [] d.k = "spy" -> SpyFn(d, value)
    [] d.k = "map" -> MapFn(d, value)
    [] d.k = "andThen" -> AndThenFn(d, value)
    [] d.k = "mapError" -> MapErrorFn(d, value)
    [] d.k = "orElse" -> OrElseFn(d, value)
    [] d.k = "field" -> FieldFn(d, value)
    [] d.k = "at" -> AtFn(d, value)
    [] d.k = "array" -> ArrayFn(d, value)
    [] d.k = "oneOf" -> OneOfFn(d, value)
    [] d.k = "discriminatedUnion" -> DiscriminatedUnionFn(d, value)
    [] d.k = "maybe" -> MaybeFn(d, value)
    [] d.k = "nullable" -> NullableFn(d, value)
    [] d.k = "elseDo" -> ElseDoFn(d, value)
    [] d.k = "keyValuePairs" -> KeyValuePairsFn(d, value)
    [] d.k = "objectOf" -> ObjectOfFn(d, value)

-----------------------------------------------------------------------------
(* The values, decoders and functions the decodes are drawn from.          *)

\* marks a property an object does not have
Absent == Val("absent", 0, "", <<>>)

\* the object with the given properties, those marked Absent left out
ObjOf(pairs) == Obj(SelectSeq(pairs, LAMBDA p : p[2] # Absent))

Numbers == {Num(i) : i \in 1..MaxNum}

Scalars == {Undefined, Null, Str("user"), Str("toString"), Bool(TRUE)} \cup Numbers

FlatObjects ==
  {ObjOf(<<<<"type", t>>, <<"x", x>>, <<"y", y>>>>) :
     t \in {Absent, Str("user"), Str("admin"), Str("guest"), Str("toString"), Num(1), Null},
     x \in {Absent, Null, Str("admin")} \cup Numbers,
     y \in {Absent, Str("a")} \cup Numbers}

Arrays == {Arr(<<>>), Arr(<<Num(1)>>), Arr(<<Str("a"), Num(1)>>)}

Inputs == Scalars \cup FlatObjects \cup Arrays

\* objects, as JSON.parse yields them, with a property named like a member
\* that objects inherit
ShadowObjects ==
  {ObjOf(<<<<"hasOwnProperty", Num(1)>>, <<"type", t>>, <<"x", x>>>>) :
     t \in {Absent, Str("user")}, x \in {Absent, Num(1)}}

Return ==
  /\ pc = "done"
  /\ pc' = "idle"
  /\ op' = "none"
  /\ args' = <<>>
  /\ decoder' = fail("")
  /\ input' = Undefined
  /\ result' = Res(Ok(Undefined))
  /\ log' = <<>>
  /\ lastIndex' = 0
  /\ returned' = <<>>

\* d.andThen(f).decodeAny(value)
AndThenFirst ==
  <<string, number, field("x", number), field("type", string), fail("nope"),
    Spy("d", field("y", string))>>

AndThenFns ==
  <<ConstFn("f", Spy("g", field("y", number))), ConstFn("f", Spy("g", string)),
    ConstFn("f", fail("later")), SucceedArgFn("f"), EqlArgFn("f")>>

DecodeAndThen ==
  /\ pc = "idle"
  /\ \E i \in 1..Len(AndThenFirst), j \in 1..Len(AndThenFns), value \in Inputs :
       LET d == andThen(AndThenFirst[i], AndThenFns[j])
       IN  /\ decoder' = d
           /\ input' = value
           /\ result' = Res(Run(d, value))
           /\ log' = Run(d, value).log
  /\ op' = "andThen"
  /\ args' = <<>>
  /\ pc' = "done"
  /\ UNCHANGED <<lastIndex, returned>>

\* d0.assign(k1, o1)...assign(kn, on).decodeAny(value)
AssignChain(d, steps, i) ==
  IF i > Len(steps) THEN d
  ELSE AssignChain(assign(d, steps[i][1], steps[i][2]), steps, i + 1)

StepId(i) == "step" \o ToString(i)

AssignFirst ==
  <<succeed(Obj(<<>>)), succeed(Obj(<<<<"x", Str("a")>>, <<"y", Str("b")>>>>)),
    field("x", number), succeed(Arr(<<Str("a")>>)), string, fail("oops0")>>

\* the decoder or function given as `other` to step i
StepOther(i, kind) ==
  CASE kind = "fieldX" -> Spy(StepId(i), field("x", number))
    [] kind = "fieldY" -> Spy(StepId(i), field("y", number))
    [] kind = "scope" -> SucceedArgFn(StepId(i))
    [] kind = "failing" -> ConstFn(StepId(i), Spy(StepId(i), fail("oops" \o ToString(i))))
    [] kind = "fail" -> Spy(StepId(i), fail("oops" \o ToString(i)))

AssignInputs ==
  {Null, Str("user")} \cup {v \in FlatObjects : ~HasKey(v.kids, "type")}

DecodeAssign ==
  /\ pc = "idle"
  /\ \E i \in 1..Len(AssignFirst), n \in 1..MaxSteps, value \in AssignInputs :
       \E keys \in [1..n -> {"x", "y"}], kinds \in [1..n -> {"fieldX", "fieldY", "scope", "failing", "fail"}] :
         LET d == AssignChain(Spy(StepId(0), AssignFirst[i]),
                              [j \in 1..n |-> <<keys[j], StepOther(j, kinds[j])>>], 1)
         IN  /\ decoder' = d
             /\ input' = value
             /\ result' = Res(Run(d, value))
             /\ log' = Run(d, value).log
  /\ op' = "assign"
  /\ args' = <<>>
  /\ pc' = "done"
  /\ UNCHANGED <<lastIndex, returned>>

\* at(path, d).decodeAny(value)
AtLeaves == <<Spy("leaf", number), Spy("leaf", string)>>

AtInputs ==
  Scalars \cup Arrays
    \cup {ObjOf(<<<<"x", x>>, <<"y", y>>>>) :
            x \in {Absent, Null, Num(1), Str("user"), Obj(<<<<"y", Num(1)>>>>),
                   Obj(<<<<"y", Null>>>>), Obj(<<<<"x", Str("a")>>>>),
                   Arr(<<Obj(<<<<"y", Num(1)>>>>)>>), Arr(<<Null>>)},
            y \in {Absent, Num(1)}}

DecodeAt ==
  /\ pc = "idle"
  /\ \E n \in 0..MaxPath, i \in 1..Len(AtLeaves), value \in AtInputs :
       \E path \in [1..n -> {Str("x"), Str("y"), Num(0)}] :
         LET d == at(path, AtLeaves[i])
         IN  /\ decoder' = d
             /\ input' = value
             /\ result' = Res(Run(d, value))
             /\ log' = Run(d, value).log
  /\ op' = "at"
  /\ args' = <<>>
  /\ pc' = "done"
  /\ UNCHANGED <<lastIndex, returned>>

\* oneOf(decoders).decodeAny(value)
\* the i-th decoder of the list handed to oneOf
OneOfMember(i, kind) ==
  Spy(StepId(i),
      CASE kind = "string" -> string
        [] kind = "number" -> number
        [] kind = "fieldX" -> field("x", number)
        [] kind = "succeed" -> succeed(Null)
        [] kind = "fail" -> fail("no"))

OneOfInputs == Scalars \cup Arrays \cup {v \in FlatObjects : ~HasKey(v.kids, "type")}

DecodeOneOf ==
  /\ pc = "idle"
  /\ \E n \in 0..MaxDecoders, value \in OneOfInputs :
       \E kinds \in [1..n -> {"string", "number", "fieldX", "succeed", "fail"}] :
         LET d == oneOf([i \in 1..n |-> OneOfMember(i, kinds[i])])
         IN  /\ decoder' = d
             /\ input' = value
             /\ result' = Res(Run(d, value))
             /\ log' = Run(d, value).log
  /\ op' = "oneOf"
  /\ args' = <<>>
  /\ pc' = "done"
  /\ UNCHANGED <<lastIndex, returned>>

\* discriminatedUnion(discriminatorField, mapping).decodeAny(value)
\* the decoder of a variant: strict ones check the tag again, as the README's do
Variant(discriminatorField, tag, strict) ==
  Spy(tag,
      IF strict
      THEN createDecoderFromStructure(
             [struct |-> <<<<discriminatorField, stringLiteral(tag)>>, <<"y", number>>>>],
             "identity")
      ELSE field("y", number))

DecodeDiscriminatedUnion ==
  /\ pc = "idle"
  /\ \E n \in 0..MaxVariants, f \in {"type", "x"}, strict \in BOOLEAN,
        value \in Inputs \cup ShadowObjects :
       \E tags \in {t \in [1..n -> {"user", "admin", "guest"}] : \A i, j \in 1..n : t[i] = t[j] => i = j} :
         LET d == discriminatedUnion(f, [i \in 1..n |->
                                           <<tags[i], Variant(f, tags[i], strict)>>])
         IN  /\ decoder' = d
             /\ input' = value
             /\ result' = Res(Run(d, value))
             /\ log' = Run(d, value).log
  /\ op' = "discriminatedUnion"
  /\ args' = <<>>
  /\ pc' = "done"
  /\ UNCHANGED <<lastIndex, returned>>

\* createDecoderFromStructure(structure, keyToLookup).decodeAny(value)
Structures ==
  <<[struct |-> <<>>],
    [struct |-> <<<<"x", Spy("x", number)>>>>],
    [struct |-> <<<<"type", Spy("type", string)>>, <<"x", Spy("x", number)>>>>],
    [struct |-> <<<<"firstName", Spy("firstName", string)>>>>],
    [struct |-> <<<<"userInfo",
                    [struct |-> <<<<"firstName", Spy("userInfo.firstName", string)>>>>]>>>>],
    [struct |-> <<<<"x", [struct |-> <<<<"y", Spy("x.y", number)>>>>]>>,
                  <<"type", Spy("type", string)>>>>],
    [struct |-> <<<<"userInfo", [struct |-> <<>>]>>, <<"x", Spy("x", number)>>>>]>>

NameObjects ==
  {ObjOf(<<<<"firstName", a>>, <<"first_name", b>>, <<"x", c>>>>) :
     a \in {Absent, Str("a")}, b \in {Absent, Str("b")}, c \in {Absent, Num(1)}}

StructureInputs ==
  Scalars \cup FlatObjects \cup NameObjects
    \cup {ObjOf(<<<<"userInfo", u>>, <<"user_info", w>>, <<"x", c>>>>) :
            u \in {Absent, Null} \cup NameObjects,
            w \in {Absent} \cup NameObjects,
            c \in {Absent, Num(1)}}
    \cup {ObjOf(<<<<"x", Obj(<<<<"y", y>>>>)>>, <<"type", t>>>>) :
            y \in {Null} \cup Numbers, t \in {Absent, Str("user")}}

DecodeStructure ==
  /\ pc = "idle"
  /\ \E i \in 1..Len(Structures), keyToLookup \in {"identity", "snakeCase"}, value \in StructureInputs :
       LET d == createDecoderFromStructure(Structures[i], keyToLookup)
       IN  /\ args' = [structure |-> Structures[i], keyToLookup |-> keyToLookup]
           /\ decoder' = d
           /\ input' = value
           /\ result' = Res(Run(d, value))
           /\ log' = Run(d, value).log
  /\ op' = "createDecoderFromStructure"
  /\ pc' = "done"
  /\ UNCHANGED <<lastIndex, returned>>

\* array(decoder).decodeAny(value)
ElementDecoders ==
  <<Spy("element", number), Spy("element", string),
    Spy("element", map(number, WrapFn("wrap")))>>

ArrayInputs ==
  Scalars \cup {Obj(<<>>), Obj(<<<<"length", Num(1)>>, <<"0", Num(1)>>>>)}
    \cup {Arr(vs) : vs \in UNION {[1..n -> {Num(1), Num(2), Str("a"), Null}] : n \in 0..MaxLen}}

DecodeArray ==
  /\ pc = "idle"
  /\ \E i \in 1..Len(ElementDecoders), value \in ArrayInputs :
       LET d == array(ElementDecoders[i])
       IN  /\ decoder' = d
           /\ input' = value
           /\ result' = Res(Run(d, value))
           /\ log' = Run(d, value).log
  /\ op' = "array"
  /\ args' = <<>>
  /\ pc' = "done"
  /\ UNCHANGED <<lastIndex, returned>>

\* field(name, decoder).decodeAny(value), fields nested up to two deep
FieldNames == {"x", "y", "length"}

FieldLeaves == <<Spy("leaf", number), Spy("leaf", string)>>

FieldInputs ==
  Scalars \cup Arrays \cup ShadowObjects
    \cup {v \in FlatObjects : ~HasKey(v.kids, "type")}
    \cup {ObjOf(<<<<"x", ObjOf(<<<<"x", a>>, <<"y", b>>>>)>>, <<"y", Str("a")>>>>) :
            a \in {Absent, Null} \cup Numbers, b \in {Absent, Str("a"), Num(1)}}

DecodeField ==
  /\ pc = "idle"
  /\ \E outer \in FieldNames, inner \in FieldNames \cup {"none"},
        i \in 1..Len(FieldLeaves), value \in FieldInputs :
       LET d == IF inner = "none" THEN field(outer, FieldLeaves[i])
                ELSE field(outer, field(inner, FieldLeaves[i]))
       IN  /\ decoder' = d
           /\ input' = value
           /\ result' = Res(Run(d, value))
           /\ log' = Run(d, value).log
  /\ op' = "field"
  /\ args' = <<>>
  /\ pc' = "done"
  /\ UNCHANGED <<lastIndex, returned>>

\* maybe(decoder).decodeAny(value) and nullable(decoder).decodeAny(value)
PresenceDecoders ==
  <<Spy("d", string), Spy("d", number), Spy("d", field("x", number)),
    Spy("d", fail("no")), Spy("d", succeed(Null)), Spy("d", eql(Null))>>

DecodeMaybe ==
  /\ pc = "idle"
  /\ \E i \in 1..Len(PresenceDecoders), value \in Inputs :
       LET d == maybe(PresenceDecoders[i])
       IN  /\ decoder' = d
           /\ input' = value
           /\ result' = Res(Run(d, value))
           /\ log' = Run(d, value).log
  /\ op' = "maybe"
  /\ args' = <<>>
  /\ pc' = "done"
  /\ UNCHANGED <<lastIndex, returned>>

DecodeNullable ==
  /\ pc = "idle"
  /\ \E i \in 1..Len(PresenceDecoders), value \in Inputs :
       LET d == nullable(PresenceDecoders[i])
       IN  /\ decoder' = d
           /\ input' = value
           /\ result' = Res(Run(d, value))
           /\ log' = Run(d, value).log
  /\ op' = "nullable"
  /\ args' = <<>>
  /\ pc' = "done"
  /\ UNCHANGED <<lastIndex, returned>>

\* d.decodeJson(json)
\* the values JSON texts are made of: no undefined, an object may occur twice
JsonValues ==
  ((Scalars \cup FlatObjects \cup Arrays \cup AtInputs) \ {Undefined})
    \cup {Obj(<<<<"x", o>>, <<"y", o>>>>) :
            o \in {Shared(1, <<>>), Shared(1, <<<<"x", Num(1)>>>>)}}
    \cup {Arr(<<Shared(1, <<>>), Shared(1, <<>>)>>)}

\* a value as JSON.parse builds it: every object a new one
Fresh(v) ==
  [v EXCEPT !.n = IF v.t \in {"object", "array"} THEN 0 ELSE v.n,
            !.kids = [i \in 1..Len(v.kids) |-> <<v.kids[i][1], Fresh(v.kids[i][2])>>]]

\* texts JSON.parse rejects, and the message of its SyntaxError
InvalidTexts == {"invalid", "", "{\"x\":"}

SyntaxErrorMessage(json) ==
  IF json = "invalid" THEN "JSON Parse error: Unexpected identifier \"invalid\""
  ELSE "JSON Parse error: Unexpected EOF"

\* JSON.parse(json): the value whose text json is, or a SyntaxError thrown
JSONparse(json) ==
  IF json \in InvalidTexts THEN Throw(SyntaxErrorMessage(json))
  ELSE IF json = "{ \"x\": 1 }" THEN Ok(Obj(<<<<"x", Num(1)>>>>))
  ELSE Ok(CHOOSE v \in {Fresh(w) : w \in JsonValues} : JsonText(v) = json)

\* decodeJson without its try and catch
decodeJsonNoCatch(d, json) ==
  IF JSONparse(json).st = "throw" THEN JSONparse(json)
  ELSE Run(d, JSONparse(json).val)

\* Decoder.decodeJson: what is thrown inside the try, by JSON.parse or by the
\* decoder function, is an Error, and its message is returned in an Err
decodeJson(d, json) ==
  LET parsed == JSONparse(json)
      r == Run(d, parsed.val)
  IN  IF parsed.st = "throw" THEN Err(parsed.err)
      ELSE IF r.st = "throw" THEN WithLog(Err(r.err), r.log)
      ELSE r

JsonDecoders ==
  <<Spy("d", string), Spy("d", number), Spy("d", field("x", number)),
    Spy("d", at(<<Str("x"), Str("x")>>, number)), Spy("d", array(number)),
    Spy("d", maybe(string)), Spy("d", eql(Null))>>

DecodeJson ==
  /\ pc = "idle"
  /\ \E i \in 1..Len(JsonDecoders), json \in (InvalidTexts \cup {"{ \"x\": 1 }"} \cup {JsonText(v) : v \in JsonValues}) :
       LET d == JsonDecoders[i]
       IN  /\ decoder' = d
           /\ input' = Str(json)
           /\ result' = Res(decodeJson(d, json))
           /\ log' = decodeJson(d, json).log
  /\ op' = "decodeJson"
  /\ args' = <<>>
  /\ pc' = "done"
  /\ UNCHANGED <<lastIndex, returned>>

\* d.decodeJson(JSON.stringify(value))
DecodeJsonOfStringify ==
  /\ pc = "idle"
  /\ \E i \in 1..Len(JsonDecoders), value \in JsonValues :
       LET d == JsonDecoders[i]
           json == JsonText(value)
       IN  /\ decoder' = d
           /\ input' = Str(json)
           /\ args' = [value |-> value]
           /\ result' = Res(decodeJson(d, json))
           /\ log' = decodeJson(d, json).log
  /\ op' = "decodeJsonOfStringify"
  /\ pc' = "done"
  /\ UNCHANGED <<lastIndex, returned>>

\* d.map(f).decodeAny(value) and d.mapError(g).decodeAny(value)
Receivers ==
  <<Spy("d", string), Spy("d", number), Spy("d", field("x", number)),
    Spy("d", succeed(Null)), Spy("d", fail("no"))>>

MapFns == <<IdentityFn("f"), WrapFn("f")>>

MapErrorFns == <<IdentityFn("g"), PrefixFn("g", "bad: ")>>

DecodeMap ==
  /\ pc = "idle"
  /\ \E i \in 1..Len(Receivers), j \in 1..Len(MapFns), value \in Inputs :
       LET d == map(Receivers[i], MapFns[j])
       IN  /\ decoder' = d
           /\ input' = value
           /\ result' = Res(Run(d, value))
           /\ log' = Run(d, value).log
  /\ op' = "map"
  /\ args' = <<>>
  /\ pc' = "done"
  /\ UNCHANGED <<lastIndex, returned>>

DecodeMapError ==
  /\ pc = "idle"
  /\ \E i \in 1..Len(Receivers), j \in 1..Len(MapErrorFns), value \in Inputs :
       LET d == mapError(Receivers[i], MapErrorFns[j])
       IN  /\ decoder' = d
           /\ input' = value
           /\ result' = Res(Run(d, value))
           /\ log' = Run(d, value).log
  /\ op' = "mapError"
  /\ args' = <<>>
  /\ pc' = "done"
  /\ UNCHANGED <<lastIndex, returned>>

\* d.orElse(f).decodeAny(value)
OrElseFns ==
  <<ConstFn("f", Spy("g", number)), ConstFn("f", Spy("g", field("y", number))),
    ConstFn("f", Spy("g", fail("still no"))), SucceedArgFn("f")>>

DecodeOrElse ==
  /\ pc = "idle"
  /\ \E i \in 1..Len(Receivers), j \in 1..Len(OrElseFns), value \in Inputs :
       LET d == orElse(Receivers[i], OrElseFns[j])
       IN  /\ decoder' = d
           /\ input' = value
           /\ result' = Res(Run(d, value))
           /\ log' = Run(d, value).log
  /\ op' = "orElse"
  /\ args' = <<>>
  /\ pc' = "done"
  /\ UNCHANGED <<lastIndex, returned>>

\* d.do(f).decodeAny(value) and d.elseDo(g).decodeAny(value)
DecodeDo ==
  /\ pc = "idle"
  /\ \E i \in 1..Len(Receivers), value \in Inputs :
       LET d == do(Receivers[i], VoidFn("f"))
       IN  /\ decoder' = d
           /\ input' = value
           /\ result' = Res(Run(d, value))
           /\ log' = Run(d, value).log
  /\ op' = "do"
  /\ args' = <<>>
  /\ pc' = "done"
  /\ UNCHANGED <<lastIndex, returned>>

DecodeElseDo ==
  /\ pc = "idle"
  /\ \E i \in 1..Len(Receivers), value \in Inputs :
       LET d == elseDo(Receivers[i], VoidFn("g"))
       IN  /\ decoder' = d
           /\ input' = value
           /\ result' = Res(Run(d, value))
           /\ log' = Run(d, value).log
  /\ op' = "elseDo"
  /\ args' = <<>>
  /\ pc' = "done"
  /\ UNCHANGED <<lastIndex, returned>>

\* keyValuePairs(decoder).decodeAny(value) and
\* objectOf(valueDecoder).decodeAny(value)
ValueDecoders == <<Spy("value", number), Spy("value", string)>>

\* objects as JSON.parse yields them, keys not in alphabetical order
KeyedObjects ==
  {ObjOf(<<<<"b", b>>, <<"a", a>>, <<"__proto__", p>>>>) :
     b \in {Absent, Null, Str("a")} \cup Numbers,
     a \in {Absent, Null, Str("a")} \cup Numbers,
     p \in {Absent, Num(1), Str("a")}}

AssociativeInputs == Scalars \cup Arrays \cup KeyedObjects

DecodeKeyValuePairs ==
  /\ pc = "idle"
  /\ \E i \in 1..Len(ValueDecoders), value \in AssociativeInputs :
       LET d == keyValuePairs(ValueDecoders[i])
       IN  /\ decoder' = d
           /\ input' = value
           /\ result' = Res(Run(d, value))
           /\ log' = Run(d, value).log
  /\ op' = "keyValuePairs"
  /\ args' = <<>>
  /\ pc' = "done"
  /\ UNCHANGED <<lastIndex, returned>>

DecodeObjectOf ==
  /\ pc = "idle"
  /\ \E i \in 1..Len(ValueDecoders), value \in AssociativeInputs :
       LET d == objectOf(ValueDecoders[i])
       IN  /\ decoder' = d
           /\ input' = value
           /\ result' = Res(Run(d, value))
           /\ log' = Run(d, value).log
  /\ op' = "objectOf"
  /\ args' = <<>>
  /\ pc' = "done"
  /\ UNCHANGED <<lastIndex, returned>>

\* const d = regex(re); d.decodeAny(value); d.decodeAny(value2); ...
Regexes ==
  {RegExp("a", flags) : flags \in {<<>>, <<"g">>, <<"y">>, <<"i">>, <<"g", "i">>}}

RegexInputs == {Str("aa"), Str("ba"), Str("A"), Num(1), Null}

DecodeRegex ==
  /\ pc = "idle"
  /\ \E re \in Regexes, value \in RegexInputs :
       LET d == regex(re)
           out == RegexFn(d, value, 0)
       IN  /\ decoder' = d
           /\ input' = value
           /\ result' = Res(out.r)
           /\ lastIndex' = out.lastIndex
           /\ returned' = <<<<value, Res(out.r)>>>>
  /\ log' = <<>>
  /\ op' = "regex"
  /\ args' = <<>>
  /\ pc' = "done"

\* the same decoder run once more
DecodeRegexAgain ==
  /\ pc = "done"
  /\ op = "regex"
  /\ Len(returned) < MaxDecodes
  /\ \E value \in RegexInputs :
       LET out == RegexFn(decoder, value, lastIndex)
       IN  /\ input' = value
           /\ result' = Res(out.r)
           /\ lastIndex' = out.lastIndex
           /\ returned' = Append(returned, <<value, Res(out.r)>>)
  /\ UNCHANGED <<pc, op, args, decoder, log>>

\* safeStringify(value)
\* values with a cycle: an object that holds itself, two objects that hold
\* each other, an array that holds itself, cycles through arrays and objects
CyclicValues ==
  {Shared(1, <<<<"a", Num(1)>>, <<"b", Ref(1)>>>>),
   Shared(1, <<<<"value", Str("foo")>>, <<"myself", Ref(1)>>>>),
   Shared(1, <<<<"a", Num(1)>>, <<"c", Shared(2, <<<<"b", Ref(1)>>>>)>>>>),
   Shared(1, <<<<"a", Num(1)>>,
               <<"c", Shared(2, <<<<"b", Ref(1)>>, <<"d", Ref(1)>>>>)>>>>),
   Shared(1, <<<<"c", Shared(2, <<<<"b", Ref(1)>>, <<"myself", Ref(2)>>>>)>>>>),
   SharedArr(1, <<Num(1), Num(2), Ref(1)>>),
   SharedArr(1, <<Num(1), Num(2), SharedArr(2, <<Num(1), Ref(1)>>)>>),
   Shared(1, <<<<"a", Num(1)>>, <<"b", SharedArr(2, <<Ref(1)>>)>>>>)}

SafeStringify ==
  /\ pc = "idle"
  /\ \E value \in (CyclicValues \cup JsonValues \cup {Undefined}) :
       /\ input' = value
       /\ result' = Res(Ok(safeStringify(value)))
  /\ decoder' = fail("")
  /\ log' = <<>>
  /\ op' = "safeStringify"
  /\ args' = <<>>
  /\ pc' = "done"
  /\ UNCHANGED <<lastIndex, returned>>

\* d.decodeAny(value), value with a cycle
CyclicalDecoders ==
  <<string, number, boolean, eql(Null), field("value", number), field("value", string),
    field("missing", string), field("myself", string), field("c", field("b", number)),
    at(<<Str("myself"), Str("missing")>>, number), at(<<Num(2), Num(2)>>, string),
    at(<<Str("c"), Str("b"), Str("c"), Str("nope")>>, number),
    array(number), array(array(string)), keyValuePairs(number), objectOf(string),
    objectOf(objectOf(number)), oneOf(<<string, number>>),
    discriminatedUnion("type", <<<<"user", field("a", number)>>>>),
    maybe(string), nullable(string)>>

DecodeCyclical ==
  /\ pc = "idle"
  /\ \E i \in 1..Len(CyclicalDecoders), value \in CyclicValues :
       LET d == CyclicalDecoders[i]
       IN  /\ decoder' = d
           /\ input' = value
           /\ result' = Res(Run(d, value))
           /\ log' = Run(d, value).log
  /\ op' = "cyclical"
  /\ args' = <<>>
  /\ pc' = "done"
  /\ UNCHANGED <<lastIndex, returned>>

Init ==
  /\ pc = "idle"
  /\ op = "none"
  /\ args = <<>>
  /\ decoder = fail("")
  /\ input = Undefined
  /\ result = Res(Ok(Undefined))
  /\ log = <<>>
  /\ lastIndex = 0
  /\ returned = <<>>

Next ==
  \/ DecodeAndThen
  \/ DecodeAssign
  \/ DecodeAt
  \/ DecodeOneOf
  \/ DecodeDiscriminatedUnion
  \/ DecodeStructure
  \/ DecodeArray
  \/ DecodeField
  \/ DecodeMaybe
  \/ DecodeNullable
  \/ DecodeJson
  \/ DecodeJsonOfStringify
  \/ DecodeMap
  \/ DecodeMapError
  \/ DecodeOrElse
  \/ DecodeDo
  \/ DecodeElseDo
  \/ DecodeKeyValuePairs
  \/ DecodeObjectOf
  \/ DecodeRegex
  \/ DecodeRegexAgain
  \/ SafeStringify
  \/ DecodeCyclical
  \/ Return

Spec == Init /\ [][Next]_vars

-----------------------------------------------------------------------------
(* Properties.                                                             *)

Done(name) == pc = "done" /\ op = name

\* the functions of the caller that ran, in the order they ran
Ran == SelectSeq(log, LAMBDA e : e.ev \in {"run", "call"})

Called(id) == \E i \in 1..Len(log) : log[i].ev = "call" /\ log[i].id = id

KeySet(pairs) == {pairs[i][1] : i \in 1..Len(pairs)}

\* C1: d.andThen(f) on input v: when d decodes v to a, the result is the result
\* of the decoder f(a) run on the original input v (f is called once, with a,
\* and every decoder function f(a) runs is handed v); when d fails with e, the
\* result is Err(e) and f is not called.
C1_AndThenRunsOnOriginalInput ==
  Done("andThen") =>
    LET first == Run(decoder.d, input)
        second == Run(CallUserFn(decoder.f, first.val).d, input)
    IN  /\ first.st = "ok" =>
             /\ result = Res(second)
             /\ log = first.log \o <<Event("call", decoder.f.id, first.val)>> \o second.log
             /\ \A i \in 1..Len(log) : log[i].ev = "run" => log[i].arg = input
        /\ first.st = "err" =>
             /\ result = Res(Err(first.err))
             /\ ~Called(decoder.f.id)
             /\ log = first.log

\* C1 witness: d decoded a part of an object and f's decoder then decoded
\* another part of the same object
C1_Witness ==
  /\ Done("andThen")
  /\ result.st = "ok"
  /\ input.t = "object"
  /\ Run(decoder.d, input).val # input
  /\ \E i \in 1..Len(log) : log[i] = Event("run", "g", input)

\* the decoder a step's `other` stands for, given the scope so far
OtherDecoder(other, scope) ==
  IF isDecoder(other) THEN other ELSE CallUserFn(other, scope).d

\* C2: d.assign(k, other), on success, yields a record that holds every key of
\* the scope d decoded, with the scope's value, plus k bound to the value other
\* decoded (replacing the scope's own value for k, if it had one), and no other
\* key; the step leaves the scope object d produced as it was.
C2_AssignExtendsScope ==
  (Done("assign") /\ result.st = "ok") =>
    LET scope == Run(decoder.d, input).val
        k == decoder.f.key
        b == Run(OtherDecoder(decoder.f.other, scope), input).val
        made == result.val
    IN  /\ made.t = "object"
        /\ KeySet(made.kids) = KeySet(OwnPairs(scope)) \cup {k}
        /\ Len(made.kids) = Cardinality(KeySet(made.kids))
        /\ \A key \in KeySet(OwnPairs(scope)) \ {k} :
             Lookup(made.kids, key) = Lookup(OwnPairs(scope), key)
        /\ Lookup(made.kids, k) = b
        /\ log[Len(log)] = Event("scope", k, scope)

\* C2 witness: the step assigned a key the scope already held, with another
\* value
C2_Witness ==
  /\ Done("assign")
  /\ result.st = "ok"
  /\ LET scope == Run(decoder.d, input).val
     IN  /\ HasKey(OwnPairs(scope), decoder.f.key)
         /\ Cardinality(KeySet(OwnPairs(scope))) > 1
         /\ Lookup(OwnPairs(scope), decoder.f.key) # Lookup(result.val.kids, decoder.f.key)

ChainLen(d) == IF d.k = "andThen" THEN 1 + ChainLen(d.d) ELSE 0

\* What the chain is to do, stage by stage (stage 0 is d0, stage i is step i):
\* the stages run in order, each on the original input, a function-valued
\* `other` is called with the scope of the stages before it, and the first
\* failing stage ends the chain with its own error.  `ran` lists the caller's
\* functions in the order this prescribes.
ChainRef(chain, value) ==
  IF chain.k # "andThen"
  THEN LET r == Run(chain, value)
       IN  [st |-> r.st, scope |-> r.val, err |-> r.err, stage |-> 0, ran |-> r.log]
  ELSE LET before == ChainRef(chain.d, value)
           other == chain.f.other
           called == IF isDecoder(other) THEN <<>>
                     ELSE <<Event("call", other.id, before.scope)>>
           r == Run(OtherDecoder(other, before.scope), value)
       IN  IF before.st # "ok" THEN before
           ELSE [st |-> r.st,
                 scope |-> IF r.st = "ok"
                           THEN Merge(before.scope, chain.f.key, r.val).created
                           ELSE Undefined,
                 err |-> r.err,
                 stage |-> ChainLen(chain),
                 ran |-> before.ran \o called \o r.log]

\* C3: in d0.assign(k1, o1)...assign(kn, on) the stages run in chain order on
\* the same original input, a function-valued oi is called with the scope of
\* steps 1..i-1, and the first failure ends the chain: its message is the
\* result, unchanged, and nothing of a later step runs.
C3_AssignChainOrder ==
  Done("assign") =>
    LET ref == ChainRef(decoder, input)
    IN  /\ Ran = ref.ran
        /\ result.st = ref.st
        /\ result.err = ref.err
        /\ result.st = "ok" => result.val = ref.scope
        /\ \A i \in 1..Len(Ran) :
             /\ Ran[i].ev = "run" => Ran[i].arg = input
             /\ \E j \in 0..ref.stage : Ran[i].id = StepId(j)
             /\ \A h \in 1..(i - 1), j \in 0..ref.stage :
                  Ran[i].id = StepId(j) => \E g \in 0..j : Ran[h].id = StepId(g)

\* C3 witness: a step that is not the last failed, after a step that succeeded
C3_Witness ==
  /\ Done("assign")
  /\ result.st = "err"
  /\ ChainLen(decoder) > ChainRef(decoder, input).stage
  /\ ChainRef(decoder, input).stage > 0
  /\ \E i \in 1..Len(Ran) : Ran[i].ev = "call" /\ Ran[i].arg.t = "object"

\* C4: a decode of a decoder built from the library's leaves and combinators
\* returns Ok or Err for every input and never raises an exception; in
\* particular at(path, d) returns a Result for every root value and path,
\* whatever the intermediate segments resolve to.
C4_DecodeNeverThrows == pc = "done" => result.st \in {"ok", "err"}

\* the decoder functions of the caller that ran, in the order they ran
Runs == SelectSeq(log, LAMBDA e : e.ev = "run")

\* what the i-th decoder of a oneOf list returns on the input
MemberResult(i) == Res(Run(decoder.decoders[i], input))

ProblemsFrom(ds, value, i) ==
  IF i > Len(ds) THEN ""
  ELSE (IF i > 1 THEN "\n" ELSE "") \o Run(ds[i], value).err \o ProblemsFrom(ds, value, i + 1)

Discriminator == Run(field(decoder.discriminatorField, string), input)

\* C7: discriminatedUnion(f, mapping): when the discriminator decodes to a tag
\* t that is a key of mapping, only mapping[t] is run, once, on the whole
\* original input; its success is the result as it is, its failure e is the
\* result as 'Error decoding variant with <f>='<t>': ' followed by e.
C7_UnionRunsOnlySelectedVariant ==
  (/\ Done("discriminatedUnion")
   /\ Discriminator.st = "ok"
   /\ HasKey(decoder.mapping, Discriminator.val.s)) =>
    LET t == Discriminator.val.s
        selected == Lookup(decoder.mapping, t)
        r == Run(selected.d, input)
    IN  /\ Runs = <<Event("run", selected.id, input)>>
        /\ r.st = "ok" => result = Res(r)
        /\ r.st = "err" =>
             result = Res(Err("Error decoding variant with " \o decoder.discriminatorField
                              \o "='" \o t \o "': " \o r.err))

\* C7 witness: of two variants the second was selected, and it failed
C7_Witness ==
  /\ Done("discriminatedUnion")
  /\ Len(decoder.mapping) >= 2
  /\ Discriminator.st = "ok"
  /\ decoder.mapping[2][1] = Discriminator.val.s
  /\ Len(Runs) = 1
  /\ result.st = "err"

\* C8: when the discriminator decodes to a string t that is no key of mapping,
\* the result is Err of 'Unexpected discriminator value '<t>' for field '<f>'.
\* Expected one of: <keys>. Found in: <input>', the keys of mapping joined by
\* ', ' in their order, and no variant decoder is run.
C8_UnknownTagIsAnError ==
  (/\ Done("discriminatedUnion")
   /\ Discriminator.st = "ok"
   /\ ~HasKey(decoder.mapping, Discriminator.val.s)) =>
    /\ result = Res(Err("Unexpected discriminator value '" \o Discriminator.val.s
                        \o "' for field '" \o decoder.discriminatorField
                        \o "'. Expected one of: "
                        \o JoinWith([i \in 1..Len(decoder.mapping) |->
                                       decoder.mapping[i][1]], ", ")
                        \o ". Found in: " \o Interp(safeStringify(input))))
    /\ Runs = <<>>

\* the annotation field(name, d) puts after an error of d
FieldNote(name) == ":\noccurred in a field named '" \o name \o "'"

\* the error of field(name, d) for a value without the field
NoField(name, v) ==
  "I expected to find an object with key '" \o name \o "' but instead I found "
    \o Interp(safeStringify(v))

\* v is not null or undefined and has the own property name
Has(v, name) == v.t \notin {"undefined", "null"} /\ HasOwnProperty(v, name)

\* C9: when the discriminator field cannot be decoded as a string (the input is
\* null or undefined or no object, the field is missing, or its value is no
\* string), the result is Err of 'Missing or invalid discriminator field '<f>'
\* in <input>', without the message of the field decoder, and no variant
\* decoder is run.
C9_MissingDiscriminatorMessage ==
  (/\ Done("discriminatedUnion")
   /\ \/ ~Has(input, decoder.discriminatorField)
      \/ GetProp(input, decoder.discriminatorField).t # "string") =>
    /\ result = Res(Err("Missing or invalid discriminator field '"
                        \o decoder.discriminatorField \o "' in "
                        \o Interp(safeStringify(input))))
    /\ Runs = <<>>

\* What C10 asks of a structure's decoder, from entry i of a level on: the
\* value of key k is read from the property keyToLookup(k) of the value of that
\* level, at every level, decoded by k's decoder (or k's nested structure), and
\* kept under k.
StructureRef(entries, keyToLookup, value, i, acc) ==
  IF i > Len(entries) THEN [st |-> "ok", val |-> Obj(acc)]
  ELSE LET key == entries[i][1]
           looked == ApplyKeyFn(keyToLookup, key)
           present == value.t \notin {"undefined", "null"} /\ HasOwnProperty(value, looked)
           sub == GetProp(value, looked)
           r == IF isDecoder(entries[i][2]) THEN Run(entries[i][2], sub)
                ELSE StructureRef(entries[i][2].struct, keyToLookup, sub, 1, <<>>)
       IN  IF ~present \/ r.st # "ok" THEN [st |-> "err", val |-> Undefined]
           ELSE StructureRef(entries, keyToLookup, value, i + 1,
                             Append(acc, <<key, r.val>>))

\* C10: createDecoderFromStructure(structure, keyToLookup) reads the value of
\* each key k from the input property keyToLookup(k), at every level of
\* nesting; the object it yields has the structure's own keys, level by level;
\* the empty structure decodes to the empty object.
C10_KeyToLookupAtEveryLevel ==
  Done("createDecoderFromStructure") =>
    LET ref == StructureRef(args.structure.struct, args.keyToLookup, input, 1, <<>>)
    IN  /\ result.st = ref.st
        /\ result.st = "ok" => result.val = ref.val

\* the elements of an array value, in index order
Elems(v) == [i \in 1..Len(v.kids) |-> v.kids[i][2]]

\* what the element decoder of array(d) returns on a value
ElementResult(v) == Res(Run(decoder.d, v))

\* the 1-based positions of the elements the element decoder fails on
Failing == {i \in 1..Len(input.kids) : ElementResult(Elems(input)[i]).st = "err"}

\* C11: array(d) applies d to the elements in increasing index order and stops
\* at the first failing element i: the result is Err of d's error on element i
\* followed by ':\nerror found in an array at [i]', and d is applied to no
\* element after i.
C11_ArrayStopsAtFirstFailure ==
  (Done("array") /\ input.t = "array") =>
    LET last == IF Failing = {} THEN Len(input.kids)
                ELSE CHOOSE i \in Failing : \A j \in Failing : i <= j
    IN  /\ Runs = [j \in 1..last |-> Event("run", decoder.d.id, Elems(input)[j])]
        /\ Failing # {} =>
             result = Res(Err(ElementResult(Elems(input)[last]).err
                              \o ":\nerror found in an array at ["
                              \o ToString(last - 1) \o "]"))

\* C11 witness: the second of three elements failed, and the third would have
\* failed too
C11_Witness ==
  /\ Done("array")
  /\ input.t = "array"
  /\ Failing = {2, 3}
  /\ result.st = "err"
  /\ Len(Runs) = 2

\* C12: array(d) on a value that is no array fails with 'I expected an array but
\* instead I found <v>' and does not run d; when every element decodes, the
\* result is Ok of an array as long as the input whose i-th entry is what d
\* decoded from the i-th element; the empty array decodes to the empty array.
C12_ArrayDecodesElementwise ==
  Done("array") =>
    /\ input.t # "array" =>
         /\ result = Res(Err("I expected an array but instead I found "
                             \o Interp(safeStringify(input))))
         /\ Runs = <<>>
    /\ (input.t = "array" /\ Failing = {}) =>
         /\ result.st = "ok"
         /\ result.val.t = "array"
         /\ Len(result.val.kids) = Len(input.kids)
         /\ \A i \in 1..Len(input.kids) :
              Elems(result.val)[i] = ElementResult(Elems(input)[i]).val
    /\ input = Arr(<<>>) => result = Res(Ok(Arr(<<>>)))

\* C12 witness: three elements, not all the same, were decoded to values that
\* are not the elements themselves
C12_Witness ==
  /\ Done("array")
  /\ input.t = "array"
  /\ Len(input.kids) >= 3
  /\ result.st = "ok"
  /\ Elems(input)[1] # Elems(input)[3]
  /\ Elems(result.val) # Elems(input)

\* C13: field(name, d) on v returns the Err "I expected to find an object with
\* key '<name>' but instead I found <v>" when v is null or undefined and when v
\* has no own property name, without running d; otherwise it returns d's result
\* on v[name], an error e of d made into e followed by ":\noccurred in a field
\* named '<name>'"; nested fields so name the innermost field first.
C13_FieldErrorsAndAnnotation ==
  Done("field") =>
    LET name == decoder.name
        r == Run(decoder.d, GetProp(input, name))
    IN  /\ ~Has(input, name) =>
             /\ result = Res(Err(NoField(name, input)))
             /\ Runs = <<>>
        /\ Has(input, name) =>
             /\ r.st = "ok" => result = Res(r)
             /\ r.st = "err" => result = Res(Err(r.err \o FieldNote(name)))
             /\ log = r.log
        /\ (/\ Has(input, name)
            /\ decoder.d.k = "field"
            /\ Has(GetProp(input, name), decoder.d.name)
            /\ result.st = "err") =>
             result.err = Run(decoder.d.d, GetProp(GetProp(input, name), decoder.d.name)).err
                            \o FieldNote(decoder.d.name) \o FieldNote(name)

\* What C14 says of at(path, d) on a root that is not null or undefined, with
\* idx segments walked and val reached: the first segment whose lookup yields
\* undefined ends the walk with an Err naming the path up to it and the root; a
\* walk that finds every segment ends in d's result on the leaf.  Of a segment
\* to be looked up in null it says nothing (said: FALSE).
AtRef(d, idx, val) ==
  IF idx >= Len(d.path)
  THEN [res |-> Res(Run(d.d, val)), ran |-> Run(d.d, val).log, said |-> TRUE]
  ELSE IF val.t = "null" THEN [res |-> Res(Err("")), ran |-> <<>>, said |-> FALSE]
  ELSE LET next == GetProp(val, Interp(d.path[idx + 1]))
       IN  IF next.t = "undefined"
           THEN [res |-> Res(Err("I found an error in the 'at' path. I could not find path '"
                                 \o Interp(safeStringify(Arr(SubSeq(d.path, 1, idx + 1))))
                                 \o "' in " \o Interp(safeStringify(input)))),
                 ran |-> <<>>,
                 said |-> TRUE]
           ELSE AtRef(d, idx + 1, next)

\* C14: at(path, d) on a null or undefined root fails with the fixed "Could not
\* apply 'at' path to an undefined or null value." error; otherwise the path is
\* walked from the left and the first segment whose lookup yields undefined
\* gives an Err naming the serialized path up to and including that segment and
\* the serialized root; when every segment is found, the result is d's result
\* on the leaf, d's error not annotated.
C14_AtWalksPath ==
  Done("at") =>
    /\ input.t \in {"undefined", "null"} =>
         /\ result = Res(Err("I found an error. Could not apply 'at' path to an undefined or null value."))
         /\ Runs = <<>>
    /\ input.t \notin {"undefined", "null"} =>
         LET ref == AtRef(decoder, 0, input)
         IN  ref.said => (result = ref.res /\ log = ref.ran)

\* C14 witness: of a path of two segments the first was not found
C14_Witness ==
  /\ Done("at")
  /\ Len(decoder.path) = 2
  /\ input.t = "object"
  /\ GetProp(input, Interp(decoder.path[1])).t = "undefined"
  /\ result.st = "err"
  /\ Runs = <<>>

\* what the decoder wrapped by the decoder of the decode returns on the input
Inner == Run(decoder.d, input)

C16_NullableKeepsErrors ==
  Done("nullable") =>
    /\ input.t \in {"undefined", "null"} => (result = Res(Ok(Nothing)) /\ log = <<>>)
    /\ input.t \notin {"undefined", "null"} =>
         /\ Inner.st = "ok" => result = Res(Ok(Just(Inner.val)))
         /\ Inner.st = "err" => result = Res(Err(Inner.err))
         /\ log = Inner.log

\* C16 witness: the decoder failed on a value that is there, and nullable
\* failed with it
C16_Witness ==
  /\ Done("nullable")
  /\ input.t = "number"
  /\ Inner.st = "err"
  /\ result.st = "err"

\* C17: decodeJson(text) never throws; when text is no JSON the result is Err
\* of the parser's message and the decoder function is not run; when text
\* parses to p the result is what decodeAny(p) returns.
C17_DecodeJsonNeverThrows ==
  Done("decodeJson") =>
    LET parsed == JSONparse(input.s)
        any == Run(decoder, parsed.val)
    IN  /\ result.st \in {"ok", "err"}
        /\ parsed.st = "throw" => (result = Res(Err(parsed.err)) /\ log = <<>>)
        /\ (parsed.st = "ok" /\ any.st \in {"ok", "err"}) =>
             (result = Res(any) /\ log = any.log)

\* C17 witness: a text that is no JSON gave an Err
C17_Witness ==
  /\ Done("decodeJson")
  /\ input.s \in InvalidTexts
  /\ result.st = "err"
  /\ log = <<>>

\* C18: for a value v that JSON can hold (nothing undefined in it, no cycle),
\* d.decodeJson(JSON.stringify(v)) and d.decodeAny(v) come out the same: both
\* Ok with equal values, or both Err with equal messages.
C18_DecodeJsonRoundTrip ==
  Done("decodeJsonOfStringify") =>
    LET any == Run(decoder, args.value)
    IN  \/ (any.st = "ok" /\ result.st = "ok" /\ Fresh(result.val) = Fresh(any.val))
        \/ (any.st = "err" /\ result.st = "err" /\ result.err = any.err)

\* C19: d.map(f) is Ok(f(a)) when d returns Ok(a), f called once, and is d's Err
\* as it is, f not called, when d fails (so d.map of the identity is d);
\* d.mapError(g) is Err(g(e)) when d returns Err(e), g called once, and is d's
\* Ok as it is, g not called, when d succeeds.
C19_MapAndMapErrorChannels ==
  /\ Done("map") =>
       /\ Inner.st = "ok" =>
            /\ result = Res(Ok(CallValueFn(decoder.f, Inner.val).val))
            /\ log = Inner.log \o <<Event("call", decoder.f.id, Inner.val)>>
       /\ Inner.st = "err" => (result = Res(Inner) /\ log = Inner.log)
       /\ decoder.f.fk = "identity" => result = Res(Inner)
  /\ Done("mapError") =>
       /\ Inner.st = "err" =>
            /\ result = Res(Err(CallErrorFn(decoder.f, Inner.err).msg))
            /\ log = Inner.log \o <<Event("call", decoder.f.id, Str(Inner.err))>>
       /\ Inner.st = "ok" => (result = Res(Inner) /\ log = Inner.log)

\* C19 witness: d failed under a map whose f is not the identity, and the
\* failure came out as it was
C19_Witness ==
  /\ Done("map")
  /\ decoder.f.fk = "wrap"
  /\ Inner.st = "err"
  /\ result = Res(Inner)
  /\ ~Called(decoder.f.id)

\* C20: d.orElse(f) on v: when d returns Ok(a) the result is Ok(a) and f is not
\* called; when d returns Err(e), f is called with e and the result is what the
\* decoder f(e) returns on the same input v.
C20_OrElseRunsFallbackOnInput ==
  Done("orElse") =>
    LET fallback == Run(CallUserFn(decoder.f, Str(Inner.err)).d, input)
    IN  /\ Inner.st = "ok" => (result = Res(Inner) /\ log = Inner.log)
        /\ Inner.st = "err" =>
             /\ result = Res(fallback)
             /\ log = Inner.log \o <<Event("call", decoder.f.id, Str(Inner.err))>>
                        \o fallback.log
             /\ \A i \in 1..Len(log) : log[i].ev = "run" => log[i].arg = input

\* C20 witness: d failed on an object and the fallback decoded a field of that
\* object
C20_Witness ==
  /\ Done("orElse")
  /\ input.t = "object"
  /\ Inner.st = "err"
  /\ result.st = "ok"
  /\ result.val # input
  /\ \E i \in 1..Len(log) : log[i] = Event("run", "g", input)

\* C21: d.do(f) and d.elseDo(g) return on every input the Result d returns; f
\* is called once, with the decoded value, when d succeeds and not otherwise;
\* g is called once, with the error message, when d fails and not otherwise.
C21_DoAndElseDoObserveOnly ==
  /\ Done("do") =>
       /\ result = Res(Inner)
       /\ log = Inner.log \o (IF Inner.st = "ok"
                              THEN <<Event("call", decoder.f.fn.id, Inner.val)>>
                              ELSE <<>>)
  /\ Done("elseDo") =>
       /\ result = Res(Inner)
       /\ log = Inner.log \o (IF Inner.st = "err"
                              THEN <<Event("call", decoder.f.id, Str(Inner.err))>>
                              ELSE <<>>)

\* C21 witness: d decoded a number out of an object, f was called with the
\* number, and the number came out
C21_Witness ==
  /\ Done("do")
  /\ input.t = "object"
  /\ result = Res(Ok(Num(1)))
  /\ log[Len(log)] = Event("call", "f", Num(1))

\* what the value decoder of keyValuePairs(d) / objectOf(d) returns on the
\* value of the i-th own key of the input
KeyResult(i) ==
  Res(Run(IF decoder.k = "objectOf" THEN decoder.valueDecoder ELSE decoder.decoder,
          input.kids[i][2]))

\* the positions of the own keys whose value the value decoder fails on
FailingKeys == {i \in 1..Len(input.kids) : KeyResult(i).st = "err"}

\* the position decoding stops after: the first failing key, or the last key
LastKey ==
  IF FailingKeys = {} THEN Len(input.kids)
  ELSE CHOOSE i \in FailingKeys : \A j \in FailingKeys : i <= j

\* C22: keyValuePairs(d) on null, an array or a value that is no object fails
\* with "Expected to find an object and instead found '<v>'" and does not run
\* d; on an object it runs d on the values of the own keys in enumeration
\* order, stops at the first failing key k with "Key '<k>' failed to decode:
\* <d's error>", and on success returns the [key, value] pairs in that order.
C22_KeyValuePairsInOrder ==
  Done("keyValuePairs") =>
    /\ input.t # "object" =>
         /\ result = Res(Err("Expected to find an object and instead found '"
                             \o Interp(safeStringify(input)) \o "'"))
         /\ Runs = <<>>
    /\ input.t = "object" =>
         /\ Runs = [j \in 1..LastKey |->
                      Event("run", decoder.decoder.id, input.kids[j][2])]
         /\ FailingKeys # {} =>
              result = Res(Err("Key '" \o input.kids[LastKey][1]
                               \o "' failed to decode: " \o KeyResult(LastKey).err))
         /\ FailingKeys = {} =>
              result = Res(Ok(Arr([j \in 1..Len(input.kids) |->
                                     Arr(<<Str(input.kids[j][1]), KeyResult(j).val>>)])))

\* C22 witness: the second of three keys failed, and the third would have
\* failed too
C22_Witness ==
  /\ Done("keyValuePairs")
  /\ input.t = "object"
  /\ FailingKeys = {2, 3}
  /\ result.st = "err"
  /\ Len(Runs) = 2

\* C23: objectOf(d) on null, an array or a value that is no object fails with
\* "I expected to find an object but instead found '<v>'"; on an object it
\* decodes the own keys in enumeration order, stops at the first key k that d
\* rejects with 'I expected the value for key "<k>" to be a valid value, but
\* found: <raw value>', and on success returns an object with exactly the own
\* keys of the input, each bound to what d decoded.
C23_ObjectOfKeepsEveryKey ==
  Done("objectOf") =>
    /\ input.t # "object" =>
         /\ result = Res(Err("I expected to find an object but instead found '"
                             \o Interp(safeStringify(input)) \o "'"))
         /\ Runs = <<>>
    /\ input.t = "object" =>
         /\ Runs = [j \in 1..LastKey |->
                      Event("run", decoder.valueDecoder.id, input.kids[j][2])]
         /\ FailingKeys # {} =>
              result = Res(Err("I expected the value for key \"" \o input.kids[LastKey][1]
                               \o "\" to be a valid value, but found: "
                               \o Interp(safeStringify(input.kids[LastKey][2]))))
         /\ FailingKeys = {} =>
              /\ result.st = "ok"
              /\ KeySet(result.val.kids) = KeySet(input.kids)
              /\ \A j \in 1..Len(input.kids) :
                   /\ HasKey(result.val.kids, input.kids[j][1])
                   /\ Lookup(result.val.kids, input.kids[j][1]) = KeyResult(j).val

\* C24: a decoder carries no state from one decode to the next: the decodes of
\* one decoder (regex(pattern) of any flags among them) on equal inputs return
\* equal Results, however many there are and whatever was decoded in between.
C24_DecodersAreStateless ==
  \A i, j \in 1..Len(returned) :
    returned[i][1] = returned[j][1] => returned[i][2] = returned[j][2]

\* the message begins with the text inner and goes on after it
ExtendsMessage(message, inner) ==
  /\ Len(message) > Len(inner)
  /\ SubSeq(message, 1, Len(inner)) = inner

\* C25: when a combinator adds the position (array index, field name, object
\* key) to a failure of its inner decoder, the message it returns begins with
\* the inner decoder's message, unchanged, and the context comes after it.
C25_ContextIsAppended ==
  /\ (Done("array") /\ input.t = "array" /\ Failing # {}) =>
       /\ result.st = "err"
       /\ ExtendsMessage(result.err,
            ElementResult(Elems(input)[CHOOSE i \in Failing : \A j \in Failing : i <= j]).err)
  /\ (Done("field") /\ result.st = "err" /\ Has(input, decoder.name)
        /\ Run(decoder.d, GetProp(input, decoder.name)).st = "err") =>
       ExtendsMessage(result.err, Run(decoder.d, GetProp(input, decoder.name)).err)
  /\ ((Done("keyValuePairs") \/ Done("objectOf")) /\ input.t = "object"
        /\ FailingKeys # {}) =>
       /\ result.st = "err"
       /\ ExtendsMessage(result.err, KeyResult(LastKey).err)
\* the value has a reference that closes a cycle
HasCycle(v) == v.t = "ref" \/ \E i \in 1..Len(v.kids) : HasCycle(v.kids[i][2])

\* the value with the string '[Cyclical Reference]' in the place of every
\* reference that closes a cycle
Marked(v) ==
  IF v.t = "ref" THEN Str("[Cyclical Reference]")
  ELSE [v EXCEPT !.kids = [i \in 1..Len(v.kids) |-> <<v.kids[i][1], Marked(v.kids[i][2])>>]]

\* C26: safeStringify returns, without throwing, on a value with a cycle (an
\* object in itself, two objects in each other, cycles through arrays): its
\* text is the JSON text of the value with "[Cyclical Reference]" in the place
\* of each reference that closes a cycle; and a decode of such a value, failing
\* with a message that shows the value, returns an Err and does not throw.
C26_SafeStringifyOnCycles ==
  /\ (Done("safeStringify") /\ HasCycle(input)) =>
       result = Res(Ok(Str(JsonText(Marked(input)))))
  /\ Done("cyclical") => result.st \in {"ok", "err"}

\* C26 witness: two objects that hold each other were rendered
C26_Witness ==
  /\ Done("safeStringify")
  /\ input = Shared(1, <<<<"a", Num(1)>>, <<"c", Shared(2, <<<<"b", Ref(1)>>>>)>>>>)
  /\ result.val = Str("{\"a\":1,\"c\":{\"b\":\"[Cyclical Reference]\"}}")
\* C30: on a value without a cycle, also one that holds the same object in
\* two places, safeStringify(value) is JSON.stringify(value): the string
\* "[Cyclical Reference]" stands only for a reference that closes a cycle.
C30_SentinelOnlyForCycles ==
  (Done("safeStringify") /\ ~HasCycle(input)) =>
    result.val = IF NoJson(input) THEN Undefined ELSE Str(JsonText(input))
\* createDecoderFromStructure read as a loop over the structure's entries from
\* the i-th on, that stops at the first entry that fails: whether it ends in an
\* error, the error, and the decoders of the caller that ran.  (The keys of a
\* nested structure are looked up as they are written.)
FailFastRef(entries, keyToLookup, value, i) ==
  IF i > Len(entries) THEN [st |-> "ok", err |-> "", runs |-> <<>>]
  ELSE LET name == ApplyKeyFn(keyToLookup, entries[i][1])
           sub == GetProp(value, name)
           inner == IF isDecoder(entries[i][2])
                    THEN LET r == Run(entries[i][2], sub)
                         IN  [st |-> r.st, err |-> r.err,
                              runs |-> SelectSeq(r.log, LAMBDA e : e.ev = "run")]
                    ELSE FailFastRef(entries[i][2].struct, "identity", sub, 1)
           rest == FailFastRef(entries, keyToLookup, value, i + 1)
       IN  IF ~Has(value, name)
           THEN [st |-> "err", err |-> NoField(name, value), runs |-> <<>>]
           ELSE IF inner.st # "ok"
           THEN [st |-> "err", err |-> inner.err \o FieldNote(name), runs |-> inner.runs]
           ELSE [st |-> rest.st, err |-> rest.err, runs |-> inner.runs \o rest.runs]

\* C27: createDecoderFromStructure takes the keys of the structure in their
\* enumeration order and stops at the first key whose field is missing or
\* whose decoder fails: the result is the error of that field alone, and the
\* decoders of the later keys, of that level and of the levels around it, are
\* not run.
C27_StructureFailsFast ==
  Done("createDecoderFromStructure") =>
    LET ref == FailFastRef(args.structure.struct, args.keyToLookup, input, 1)
    IN  /\ result.st = ref.st
        /\ ref.st = "err" => result.err = ref.err
        /\ Runs = ref.runs

\* C27 witness: the decoder of a nested key failed, and the decoder of the key
\* after the nested structure, which would have failed too, was not run
C27_Witness ==
  /\ Done("createDecoderFromStructure")
  /\ Len(args.structure.struct) = 2
  /\ ~isDecoder(args.structure.struct[1][2])
  /\ Has(input, "x")
  /\ GetProp(GetProp(input, "x"), "y") = Null
  /\ ~Has(input, "type")
  /\ result.st = "err"
  /\ Len(Runs) = 1
  /\ Runs[1].id = "x.y"
\* nullable(d) on the input of the decode, d the decoder maybe was given
ByNullable == Run(nullable(decoder.d), input)

\* C28 as stated: wherever nullable(d) succeeds, maybe(d) returns the same
\* Ok; the two differ only where nullable(d) returns an Err, and there maybe(d)
\* is Ok(Nothing).
C28_MaybeAgreesWithNullable ==
  Done("maybe") =>
    /\ ByNullable.st = "ok" => result = Res(ByNullable)
    /\ ByNullable.st = "err" => result = Res(Ok(Nothing))

\* C28, corrected: on an input that is not null or undefined, maybe(d) returns
\* the Ok nullable(d) returns, and Ok(Nothing) where nullable(d) returns an
\* Err.  On null and undefined nullable(d) is Ok(Nothing) without running d,
\* while maybe(d) runs d: it is Ok(Just(a)) when d decodes null or undefined
\* to a, and Ok(Nothing) only when d rejects it.
C28_MaybeAgreesOffNull ==
  Done("maybe") =>
    /\ (ByNullable.st = "ok" /\ input.t \notin {"undefined", "null"}) =>
         result = Res(ByNullable)
    /\ ByNullable.st = "err" => result = Res(Ok(Nothing))
    /\ input.t \in {"undefined", "null"} =>
         /\ ByNullable = Ok(Nothing)
         /\ Inner.st = "ok" => result = Res(Ok(Just(Inner.val)))
         /\ Inner.st = "err" => result = Res(Ok(Nothing))

\* C28 witness: a decoder that accepts null was given null: maybe made a Just
\* of it where nullable has Nothing
C28_Witness ==
  /\ Done("maybe")
  /\ input = Null
  /\ Inner.st = "ok"
  /\ result = Res(Ok(Just(Null)))
  /\ ByNullable = Ok(Nothing)
\* every variant decoder of the mapping checks the tag again: it is the
\* structure decoder that starts with field(discriminatorField, stringLiteral(k))
StrictMapping ==
  \A i \in 1..Len(decoder.mapping) : decoder.mapping[i][2].d.k = "andThen"

\* oneOf of the mapping's decoders, in the order of the mapping, on the input
ByOneOf == Run(oneOf([i \in 1..Len(decoder.mapping) |-> decoder.mapping[i][2]]), input)

====
